---- MODULE Spec2Model ----
(***************************************************************************)
(* Model of the mediator state machine of raiden                           *)
(* (raiden/transfer/mediated_transfer/mediator.py).                        *)
(*                                                                         *)
(* state_transition is a function (state, state_change, channels, block)   *)
(* -> (new_state, events); it is modelled by the operator state_transition *)
(* below, built from one operator per function of mediator.py.  The host   *)
(* loop that feeds it state changes is the next-state relation.            *)
(*                                                                         *)
(* raiden.transfer.channel and raiden.transfer.secret_registry are not     *)
(* part of the sources at hand; the channel_* and secret_registry_*        *)
(* operators model them from the specification text.                       *)
(***************************************************************************)
EXTENDS Integers, Sequences, FiniteSets, TLC

\* ------------------------------------------------------------------ bounds

\* Highest block number a Block state change carries.
MaxBlock == 14

\* -------------------------------------------------------- program constants

\* raiden.constants.MAXIMUM_PENDING_TRANSFERS
MAXIMUM_PENDING_TRANSFERS == 160
\* raiden.settings.DEFAULT_NUMBER_OF_CONFIRMATIONS_BLOCK
DEFAULT_NUMBER_OF_CONFIRMATIONS_BLOCK == 5
\* amount of the mediated transfer (test_payer_enter_danger_zone_with_transfer_payed)
UNIT_AMOUNT == 10

STATE_SECRET_KNOWN ==
    { "payee_secret_revealed", "payee_contract_unlock", "payee_balance_proof",
      "payer_secret_revealed", "payer_waiting_close", "payer_waiting_unlock",
      "payer_balance_proof" }

STATE_TRANSFER_PAID ==
    { "payee_contract_unlock", "payee_balance_proof", "payer_balance_proof" }

STATE_TRANSFER_FINAL ==
    { "payee_contract_unlock", "payee_balance_proof", "payee_expired",
      "payer_balance_proof", "payer_expired" }

valid_payee_states ==
    { "payee_pending", "payee_secret_revealed", "payee_contract_unlock",
      "payee_balance_proof", "payee_expired" }

valid_payer_states ==
    { "payer_pending", "payer_secret_revealed", "payer_waiting_close",
      "payer_waiting_unlock", "payer_balance_proof", "payer_expired" }

CHANNEL_STATE_OPENED == "opened"
CHANNEL_STATE_CLOSED == "closed"

\* ------------------------------------------------------------ the universe

\* The node's channels: cA is the channel with the upstream payer A, cB and
\* cC are channels with the possible next hops B and C.
ChannelIds == { "cA", "cB", "cC" }
\* A channel identifier no channel of the node has.
UnknownChannel == "cX"

\* Python's None.
None == "None"
\* No exception was raised.
NoError == "ok"

\* The secret of the mediated transfer, another secret, and their hashes.
UNIT_SECRET == "S"
OtherSecret == "S2"
UNIT_HASHLOCK == "H"
sha3(secret) == IF secret = UNIT_SECRET THEN UNIT_HASHLOCK ELSE "H2"

\* An event of a transition: its class, the channel it names (None when
\* the event names no channel, as the EventUnlock* events, which carry the
\* payment identifier and the secrethash only) and the address it is sent
\* to (None for an event that is no message).
Event(type, channel_identifier, recipient) ==
    [ type |-> type, channel |-> channel_identifier, recipient |-> recipient ]

CHANNEL_IDENTIFIER_GLOBAL_QUEUE == "global"

\* A locked transfer: signed (received from a peer) or unsigned (produced
\* locally), with the fields is_send_transfer_almost_equal compares.
LockedTransfer(signed, channel_identifier, sender, amount, expiration, secrethash, payment_identifier) ==
    [ signed |-> signed, channel_identifier |-> channel_identifier,
      sender |-> sender, amount |-> amount, expiration |-> expiration,
      secrethash |-> secrethash, payment_identifier |-> payment_identifier ]

\* MediationPairState.__init__
MediationPairState(payer_transfer, payee_address, payee_transfer) ==
    [ payer_transfer |-> payer_transfer, payee_address |-> payee_address,
      payee_transfer |-> payee_transfer,
      payer_state |-> "payer_pending", payee_state |-> "payee_pending" ]

\* MediatorTransferState.__init__
MediatorTransferState(secrethash) ==
    [ is_null |-> FALSE, secrethash |-> secrethash, secret |-> None,
      transfers_pair |-> << >> ]

\* The absent mediator state (Python's None as mediator_state).
NullState ==
    [ is_null |-> TRUE, secrethash |-> None, secret |-> None,
      transfers_pair |-> << >> ]

\* TransitionResult, together with the channels as the handlers left them
\* and the exception the handler raised, if any.
TransitionResult(new_state, channels, events) ==
    [ new_state |-> new_state, channels |-> channels, events |-> events,
      raised |-> NoError ]

Raise(state, channels, error) ==
    [ new_state |-> state, channels |-> channels, events |-> << >>,
      raised |-> error ]

\* ------------------------------------------------- raiden.transfer.channel

\* NettingChannelState, reduced to what the mediator reads and writes: the
\* status, the two timeouts, the partner's address, what this node may still
\* send, and on each side the lock of the mediated transfer (our_lock: the
\* lock this node sent, partner_lock: the lock the partner sent), each
\* "none", "locked" (secrethashes_to_lockedlocks), "unlocked" (secret
\* registered off chain) or "onchain" (secret registered on chain).
NettingChannelState(partner_address, reveal_timeout, settle_timeout, distributable) ==
    [ status |-> CHANNEL_STATE_OPENED, partner_address |-> partner_address,
      reveal_timeout |-> reveal_timeout, settle_timeout |-> settle_timeout,
      distributable |-> distributable,
      our_lock |-> "none", our_lock_expiration |-> 0,
      partner_lock |-> "none", partner_lock_expiration |-> 0 ]

channel_get_status(channel_state) == channel_state.status

channel_get_distributable(channel_state) == channel_state.distributable

channel_get_number_of_pending_transfers(channel_state) ==
    IF channel_state.our_lock = "none" THEN 0 ELSE 1

channel_is_valid_amount(channel_state, amount) == amount > 0

\* channel.register_secret: a lock that is still locked moves to the
\* unlocked locks of its side.
channel_register_secret(channel_state) ==
    [ channel_state EXCEPT
        !.our_lock = IF @ = "locked" THEN "unlocked" ELSE @,
        !.partner_lock = IF @ = "locked" THEN "unlocked" ELSE @ ]

\* channel.register_onchain_secret: a known lock moves to the locks unlocked
\* on chain.
channel_register_onchain_secret(channel_state) ==
    [ channel_state EXCEPT
        !.our_lock = IF @ \in { "locked", "unlocked" } THEN "onchain" ELSE @,
        !.partner_lock = IF @ \in { "locked", "unlocked" } THEN "onchain" ELSE @ ]

\* channel.is_secret_known(channel_state.partner_state, secrethash)
channel_is_secret_known(channel_state) ==
    channel_state.partner_lock \in { "unlocked", "onchain" }

\* channel.send_lockedtransfer and channel.send_refundtransfer: the amount
\* is locked on our side of the channel.
channel_send_lockedtransfer(channel_state, amount, expiration) ==
    [ channel_state EXCEPT
        !.our_lock = "locked", !.our_lock_expiration = expiration,
        !.distributable = @ - amount ]

\* channel.send_unlock: the lock of our side is released to the partner.
channel_send_unlock(channel_state) ==
    [ channel_state EXCEPT !.our_lock = "none" ]

\* channel.handle_receive_lockedtransfer: the channel accepts a transfer
\* whose balance proof is valid for it, and records the partner's lock.
channel_is_valid_lockedtransfer(channel_state, transfer, message_valid) ==
    /\ message_valid
    /\ channel_get_status(channel_state) = CHANNEL_STATE_OPENED
    /\ transfer.sender = channel_state.partner_address
    /\ channel_state.partner_lock = "none"

channel_handle_receive_lockedtransfer(channel_state, transfer) ==
    [ channel_state EXCEPT
        !.partner_lock = "locked", !.partner_lock_expiration = transfer.expiration ]

\* channel.handle_refundtransfer: a refund is valid when it is a valid
\* locked transfer of the channel that repeats the lock this node sent.
channel_is_valid_refund(received_transfer, channel_state, refund, message_valid) ==
    /\ channel_is_valid_lockedtransfer(channel_state, refund, message_valid)
    /\ refund.payment_identifier = received_transfer.payment_identifier
    /\ refund.amount = received_transfer.amount
    /\ refund.expiration = received_transfer.expiration
    /\ refund.secrethash = received_transfer.secrethash

\* channel.handle_unlock: an unlock is valid when its balance proof is valid
\* and the partner has the lock pending; the lock is then claimed.
channel_is_valid_unlock(channel_state, sender, message_valid) ==
    /\ message_valid
    /\ sender = channel_state.partner_address
    /\ channel_state.partner_lock # "none"

channel_handle_unlock(channel_state) ==
    [ channel_state EXCEPT !.partner_lock = "none" ]

\* channel.handle_receive_lock_expired: a valid message removes the
\* partner's pending lock.
channel_is_valid_lock_expired(channel_state, message_valid) ==
    /\ message_valid
    /\ channel_state.partner_lock = "locked"

channel_handle_receive_lock_expired(channel_state) ==
    [ channel_state EXCEPT !.partner_lock = "none" ]

\* channel.delete_secrethash_endstate(channel_state.our_state, secrethash)
channel_delete_secrethash_endstate(channel_state) ==
    [ channel_state EXCEPT !.our_lock = "none" ]

\* secret_registry.events_for_onchain_secretreveal
secret_registry_events_for_onchain_secretreveal(secret, expiration) ==
    << Event("ContractSendSecretReveal", None, None) >>

\* ------------------------------- raiden.transfer.mediated_transfer.mediator

\* True if the lock has not expired.
is_lock_valid(expiration, block_number) == block_number <= expiration

\* The three assertions at the head of is_safe_to_wait.
is_safe_to_wait_asserts(lock_expiration, reveal_timeout, block_number) ==
    /\ block_number > 0
    /\ reveal_timeout > 0
    /\ lock_expiration > reveal_timeout

\* A waiting rule that also waits at the very edge of the reveal timeout.
is_safe_to_wait_at_the_edge(lock_expiration, reveal_timeout, block_number) ==
    lock_expiration - block_number >= reveal_timeout

\* True if there are more than enough blocks to safely unlock on chain.
is_safe_to_wait(lock_expiration, reveal_timeout, block_number) ==
    LET lock_timeout == lock_expiration - block_number
    IN  lock_timeout > reveal_timeout

\* What a call of is_safe_to_wait comes to: "True" or "False" (the first
\* component of the pair it returns), or the AssertionError of one of its
\* three assertions.
is_safe_to_wait_result(lock_expiration, reveal_timeout, block_number) ==
    IF ~is_safe_to_wait_asserts(lock_expiration, reveal_timeout, block_number)
    THEN "AssertionError"
    ELSE IF is_safe_to_wait(lock_expiration, reveal_timeout, block_number)
    THEN "True"
    ELSE "False"

is_channel_usable(candidate_channel_state, transfer_amount, lock_timeout) ==
    LET pending_transfers ==
            channel_get_number_of_pending_transfers(candidate_channel_state)
        distributable == channel_get_distributable(candidate_channel_state)
    IN  /\ lock_timeout > 0
        /\ channel_get_status(candidate_channel_state) = CHANNEL_STATE_OPENED
        /\ candidate_channel_state.settle_timeout >= lock_timeout
        /\ candidate_channel_state.reveal_timeout < lock_timeout
        /\ pending_transfers < MAXIMUM_PENDING_TRANSFERS
        /\ transfer_amount <= distributable
        /\ channel_is_valid_amount(candidate_channel_state, transfer_amount)

\* True if both transfers are for the same mediated transfer.
is_send_transfer_almost_equal(send, received) ==
    /\ ~send.signed
    /\ received.signed
    /\ send.payment_identifier = received.payment_identifier
    /\ send.amount = received.amount
    /\ send.expiration = received.expiration
    /\ send.secrethash = received.secrethash

\* A filter that removes the payer channels of the pairs only.
filter_payer_routes(transfers_pair, routes) ==
    LET used == { transfers_pair[i].payer_transfer.channel_identifier :
                      i \in DOMAIN transfers_pair }
        unused(route) == route \notin used
    IN  SelectSeq(routes, unused)

\* A filter that keeps every route.
keep_all_routes(transfers_pair, routes) == routes

\* The routes whose channel is neither the payer nor the payee channel of a
\* pair (a route is the identifier of its channel).
filter_used_routes(transfers_pair, routes) ==
    LET used == { transfers_pair[i].payer_transfer.channel_identifier :
                      i \in DOMAIN transfers_pair }
                \cup
                { transfers_pair[i].payee_transfer.channel_identifier :
                      i \in DOMAIN transfers_pair }
        unused(route) == route \notin used
    IN  SelectSeq(routes, unused)

\* The pairs that are not at a final state (as indexes of transfers_pair).
get_pending_transfer_pairs(transfers_pair) ==
    { i \in DOMAIN transfers_pair :
        \/ transfers_pair[i].payee_state \notin STATE_TRANSFER_FINAL
        \/ transfers_pair[i].payer_state \notin STATE_TRANSFER_FINAL }

\* A sanity check without assertions.
sanity_check_skipped(state) == TRUE

\* A sanity check that looks at each pair alone, never at two consecutive
\* pairs.
sanity_check_of_each_pair(state) ==
    LET pairs == state.transfers_pair
        n == Len(pairs)
    IN  /\ (\E i \in 1..n : \/ pairs[i].payee_state \in STATE_TRANSFER_PAID
                            \/ pairs[i].payer_state \in STATE_TRANSFER_PAID)
              => state.secret # None
        /\ n > 0 => state.secrethash = pairs[1].payer_transfer.secrethash
        /\ \A i \in 1..n :
              /\ is_send_transfer_almost_equal(pairs[i].payee_transfer,
                                               pairs[i].payer_transfer)
              /\ pairs[i].payer_state \in valid_payer_states
              /\ pairs[i].payee_state \in valid_payee_states

\* sanity_check passes (none of its assertions fails).
sanity_check(state) ==
    LET pairs == state.transfers_pair
        n == Len(pairs)
    IN  /\ (\E i \in 1..n : \/ pairs[i].payee_state \in STATE_TRANSFER_PAID
                            \/ pairs[i].payer_state \in STATE_TRANSFER_PAID)
              => state.secret # None
        /\ n > 0 => state.secrethash = pairs[1].payer_transfer.secrethash
        /\ \A i \in 1..n :
              /\ is_send_transfer_almost_equal(pairs[i].payee_transfer,
                                               pairs[i].payer_transfer)
              /\ pairs[i].payer_state \in valid_payer_states
              /\ pairs[i].payee_state \in valid_payee_states
        /\ \A i \in 1..(n - 1) :
              /\ is_send_transfer_almost_equal(pairs[i].payee_transfer,
                                               pairs[i + 1].payer_transfer)
              /\ pairs[i].payee_address = pairs[i + 1].payer_transfer.sender
              /\ pairs[i].payee_transfer.expiration
                     = pairs[i + 1].payer_transfer.expiration

\* A transition end that never clears the state.
keep_iteration(iteration) == iteration

\* All transfer pairs have finalized.
all_finalized(state) ==
    \A i \in DOMAIN state.transfers_pair :
        /\ state.transfers_pair[i].payee_state \in STATE_TRANSFER_PAID
        /\ state.transfers_pair[i].payer_state \in STATE_TRANSFER_PAID

\* Clear the state if all transfer pairs have finalized.
clear_if_finalized(iteration) ==
    IF iteration.new_state.is_null
    THEN iteration
    ELSE IF all_finalized(iteration.new_state)
         THEN [ iteration EXCEPT !.new_state = NullState ]
         ELSE iteration

\* A choice of route that takes the first route whose channel exists,
\* usable or not.
next_channel_from_routes_unchecked(available_routes, channels, transfer_amount, lock_timeout) ==
    LET known == { k \in DOMAIN available_routes :
                     available_routes[k] \in DOMAIN channels }
    IN  IF known = { }
        THEN None
        ELSE available_routes[CHOOSE k \in known : \A l \in known : k <= l]

\* The first route whose channel exists and is usable, or None.
RECURSIVE next_channel_from_routes(_, _, _, _)
next_channel_from_routes(available_routes, channels, transfer_amount, lock_timeout) ==
    IF available_routes = << >>
    THEN None
    ELSE IF /\ Head(available_routes) \in DOMAIN channels
            /\ is_channel_usable(channels[Head(available_routes)],
                                 transfer_amount, lock_timeout)
    THEN Head(available_routes)
    ELSE next_channel_from_routes(Tail(available_routes), channels,
                                  transfer_amount, lock_timeout)

\* next_transfer_pair once the payee channel is chosen: [pair (a sequence of
\* at most one pair), channels, events].
next_transfer_pair_on(payer_transfer, channels, payee_channel) ==
    IF payee_channel = None
    THEN [ pair |-> << >>, channels |-> channels, events |-> << >> ]
    ELSE [ pair |-> << MediationPairState(
                          payer_transfer,
                          channels[payee_channel].partner_address,
                          LockedTransfer(
                              FALSE, payee_channel, "N", payer_transfer.amount,
                              payer_transfer.expiration, payer_transfer.secrethash,
                              payer_transfer.payment_identifier)) >>,
           channels |-> [ channels EXCEPT ![payee_channel] =
                            channel_send_lockedtransfer(
                                @, payer_transfer.amount,
                                payer_transfer.expiration) ],
           events |-> << Event("SendMediatedTransfer", payee_channel,
                               channels[payee_channel].partner_address) >> ]

\* Given a payer transfer tries a new route to proceed with the mediation.
next_transfer_pair(payer_transfer, available_routes, channels, block_number) ==
    next_transfer_pair_on(
        payer_transfer, channels,
        next_channel_from_routes(available_routes, channels, payer_transfer.amount,
                                 payer_transfer.expiration - block_number))

\* The channels a pair of the state uses, as payer or as payee channel.
channels_of_pairs(transfers_pair) ==
    { transfers_pair[i].payer_transfer.channel_identifier : i \in DOMAIN transfers_pair }
    \cup
    { transfers_pair[i].payee_transfer.channel_identifier : i \in DOMAIN transfers_pair }

\* Set the secret to all mediated transfers (off-chain registration).
set_secret(state, channels) ==
    [ c \in DOMAIN channels |->
        IF c \in channels_of_pairs(state.transfers_pair)
        THEN channel_register_secret(channels[c])
        ELSE channels[c] ]

\* Set the secret to all mediated transfers (learned from the registry).
set_onchain_secret(state, channels) ==
    [ c \in DOMAIN channels |->
        IF c \in channels_of_pairs(state.transfers_pair)
        THEN channel_register_onchain_secret(channels[c])
        ELSE channels[c] ]

\* The latest pair whose payee is payee_address (0 when there is none).
latest_pair_of_payee(transfers_pair, payee_address) ==
    LET matching == { i \in DOMAIN transfers_pair :
                        transfers_pair[i].payee_address = payee_address }
    IN  IF matching = { }
        THEN 0
        ELSE CHOOSE i \in matching : \A j \in matching : j <= i

\* Set the state of the transfer sent to payee_address.
set_payee_state_and_check_reveal_order(transfers_pair, payee_address, new_payee_state) ==
    [ i \in DOMAIN transfers_pair |->
        IF i = latest_pair_of_payee(transfers_pair, payee_address)
        THEN [ transfers_pair[i] EXCEPT !.payee_state = new_payee_state ]
        ELSE transfers_pair[i] ]

\* Concatenation of a sequence of event lists.
RECURSIVE Concat(_)
Concat(lists) ==
    IF lists = << >> THEN << >> ELSE Head(lists) \o Concat(Tail(lists))

Reverse(seq) == [ i \in 1..Len(seq) |-> seq[Len(seq) + 1 - i] ]

has_payee_transfer_expired(pair, block_number) ==
    /\ block_number > pair.payee_transfer.expiration
    /\ pair.payee_state # "payee_expired"

has_payer_transfer_expired(pair, block_number) ==
    /\ block_number > pair.payer_transfer.expiration
    /\ pair.payer_state # "payer_expired"

\* One pair of set_expired_pairs' loop: the pair as the loop leaves it.
set_expired_pair(pair, block_number) ==
    [ pair EXCEPT
        !.payer_state = IF has_payer_transfer_expired(pair, block_number)
                        THEN "payer_expired" ELSE @,
        !.payee_state = IF has_payee_transfer_expired(pair, block_number)
                        THEN "payee_expired" ELSE @ ]

\* One pair of set_expired_pairs' loop: the events it appends.
set_expired_pair_events(pair, block_number) ==
    (IF has_payer_transfer_expired(pair, block_number)
     THEN << Event("EventUnlockClaimFailed", None, None) >>
     ELSE << >>)
    \o
    (IF has_payee_transfer_expired(pair, block_number)
     THEN << Event("EventUnlockFailed", None, None) >>
     ELSE << >>)

\* set_expired_pairs with the assertion that an expired payer transfer finds
\* its payee transfer expired.
set_expired_pairs_asserting(transfers_pair, block_number) ==
    [ pairs |-> transfers_pair,
      events |-> << >>,
      raised |-> IF \E i \in get_pending_transfer_pairs(transfers_pair) :
                       /\ has_payer_transfer_expired(transfers_pair[i], block_number)
                       /\ transfers_pair[i].payee_state # "payee_expired"
                 THEN "AssertionError"
                 ELSE NoError ]

\* Set the pending transfers to the expired state and return the failed
\* events: [pairs, events, raised].
set_expired_pairs(transfers_pair, block_number) ==
    [ pairs |-> [ i \in DOMAIN transfers_pair |->
                    IF i \in get_pending_transfer_pairs(transfers_pair)
                    THEN set_expired_pair(transfers_pair[i], block_number)
                    ELSE transfers_pair[i] ],
      events |-> Concat([ i \in DOMAIN transfers_pair |->
                    IF i \in get_pending_transfer_pairs(transfers_pair)
                    THEN set_expired_pair_events(transfers_pair[i], block_number)
                    ELSE << >> ]),
      raised |-> NoError ]

\* Refund the transfer on refund_channel if it is usable: [channels, events].
events_for_refund_transfer(refund_channel, channels, transfer_to_refund, block_number) ==
    IF is_channel_usable(channels[refund_channel], transfer_to_refund.amount,
                         transfer_to_refund.expiration - block_number)
    THEN [ channels |-> [ channels EXCEPT ![refund_channel] =
                            channel_send_lockedtransfer(
                                @, transfer_to_refund.amount,
                                transfer_to_refund.expiration) ],
           events |-> << Event("SendRefundTransfer", refund_channel,
                               channels[refund_channel].partner_address) >> ]
    ELSE [ channels |-> channels, events |-> << >> ]

\* should_reveal_secret without the test of the payee's state.
should_reveal_secret_to_any_pending(pair) ==
    pair.payer_state = "payer_pending"

\* One pair of events_for_revealsecret's loop: the secret is sent to the payer.
should_reveal_secret(pair) ==
    LET payee_secret == pair.payee_state \in STATE_SECRET_KNOWN
        payer_secret == pair.payer_state \in STATE_SECRET_KNOWN
        should_send_secret == pair.payer_state = "payer_pending"
    IN  payee_secret /\ ~payer_secret /\ should_send_secret

\* Reveal the secret backwards: [pairs, events].
events_for_revealsecret(transfers_pair) ==
    [ pairs |-> [ i \in DOMAIN transfers_pair |->
                    IF should_reveal_secret(transfers_pair[i])
                    THEN [ transfers_pair[i] EXCEPT
                             !.payer_state = "payer_secret_revealed" ]
                    ELSE transfers_pair[i] ],
      events |-> Concat(Reverse([ i \in DOMAIN transfers_pair |->
                    IF should_reveal_secret(transfers_pair[i])
                    THEN << Event("SendRevealSecret", CHANNEL_IDENTIFIER_GLOBAL_QUEUE,
                                  transfers_pair[i].payer_transfer.sender) >>
                    ELSE << >> ])) ]

\* get_payee_channel and get_payer_channel assert that the channel exists.
has_payee_channel(channels, pair) ==
    pair.payee_transfer.channel_identifier \in DOMAIN channels

has_payer_channel(channels, pair) ==
    pair.payer_transfer.channel_identifier \in DOMAIN channels

get_payee_channel(channels, pair) ==
    channels[pair.payee_transfer.channel_identifier]

get_payer_channel(channels, pair) ==
    channels[pair.payer_transfer.channel_identifier]

\* One pair of events_for_balanceproof's loop: none of its assertions fails.
balanceproof_asserts(channels, pair, block_number) ==
    /\ has_payee_channel(channels, pair)
    /\ has_payer_channel(channels, pair)
    /\ is_safe_to_wait_asserts(pair.payer_transfer.expiration,
                               get_payer_channel(channels, pair).reveal_timeout,
                               block_number)

\* A rule that sends the balance proof to every payee that knows the secret.
should_send_balanceproof_when_known(channels, pair, block_number) ==
    /\ pair.payee_state \in STATE_SECRET_KNOWN
    /\ pair.payee_state \notin STATE_TRANSFER_PAID

\* One pair of events_for_balanceproof's loop: the balance proof is sent.
should_send_balanceproof_to_payee(channels, pair, block_number) ==
    LET payee_knows_secret == pair.payee_state \in STATE_SECRET_KNOWN
        payee_payed == pair.payee_state \in STATE_TRANSFER_PAID
        payee_channel_open ==
            channel_get_status(get_payee_channel(channels, pair))
                = CHANNEL_STATE_OPENED
        is_safe_to_send_balanceproof ==
            is_safe_to_wait(pair.payer_transfer.expiration,
                            get_payer_channel(channels, pair).reveal_timeout,
                            block_number)
    IN  /\ payee_channel_open
        /\ payee_knows_secret
        /\ ~payee_payed
        /\ is_safe_to_send_balanceproof

\* events_for_balanceproof, given the set of the pairs it sends the balance
\* proof for.
events_for_balanceproof_to(channels, transfers_pair, sends) ==
    [ pairs |-> [ i \in DOMAIN transfers_pair |->
                    IF i \in sends
                    THEN [ transfers_pair[i] EXCEPT
                             !.payee_state = "payee_balance_proof" ]
                    ELSE transfers_pair[i] ],
      channels |-> [ c \in DOMAIN channels |->
                    IF \E i \in sends :
                           transfers_pair[i].payee_transfer.channel_identifier = c
                    THEN channel_send_unlock(channels[c])
                    ELSE channels[c] ],
      events |-> Concat(Reverse([ i \in DOMAIN transfers_pair |->
                    IF i \in sends
                    THEN << Event("SendUnlock",
                                  transfers_pair[i].payee_transfer.channel_identifier,
                                  transfers_pair[i].payee_address),
                            Event("EventUnlockSuccess", None, None) >>
                    ELSE << >> ])),
      raised |-> NoError ]

\* An events_for_balanceproof that sends nothing.
events_for_balanceproof_none(channels, transfers_pair, block_number) ==
    [ pairs |-> transfers_pair, channels |-> channels, events |-> << >>,
      raised |-> NoError ]

\* While it's safe do the off-chain unlock: [pairs, channels, events, raised].
events_for_balanceproof(channels, transfers_pair, block_number) ==
    IF \E i \in DOMAIN transfers_pair :
           ~balanceproof_asserts(channels, transfers_pair[i], block_number)
    THEN [ pairs |-> transfers_pair, channels |-> channels, events |-> << >>,
           raised |-> "AssertionError" ]
    ELSE events_for_balanceproof_to(
             channels, transfers_pair,
             { i \in DOMAIN transfers_pair :
                 should_send_balanceproof_to_payee(
                     channels, transfers_pair[i], block_number) })

\* One pair of events_for_onchain_secretreveal's loop: "raise" when an
\* assertion fails, "reveal" when the secret has to go on chain, "next" when
\* the loop goes on to the pair before.
onchain_secretreveal_step(channels, transfers_pair, i, block_number) ==
    IF i \notin get_pending_transfer_pairs(transfers_pair)
    THEN "next"
    ELSE IF ~has_payer_channel(channels, transfers_pair[i])
    THEN "raise"
    ELSE IF ~is_safe_to_wait_asserts(
                 transfers_pair[i].payer_transfer.expiration,
                 get_payer_channel(channels, transfers_pair[i]).reveal_timeout,
                 block_number)
    THEN "raise"
    ELSE IF /\ ~is_safe_to_wait(
                    transfers_pair[i].payer_transfer.expiration,
                    get_payer_channel(channels, transfers_pair[i]).reveal_timeout,
                    block_number)
            /\ channel_is_secret_known(get_payer_channel(channels, transfers_pair[i]))
    THEN "reveal"
    ELSE "next"

\* The loop of events_for_onchain_secretreveal, from pair i down to the
\* first: [events, raised].
RECURSIVE onchain_secretreveal_from(_, _, _, _)
onchain_secretreveal_from(channels, transfers_pair, i, block_number) ==
    IF i = 0
    THEN [ events |-> << >>, raised |-> NoError ]
    ELSE CASE onchain_secretreveal_step(channels, transfers_pair, i, block_number)
                  = "raise" ->
                [ events |-> << >>, raised |-> "AssertionError" ]
           [] onchain_secretreveal_step(channels, transfers_pair, i, block_number)
                  = "reveal" ->
                [ events |-> secret_registry_events_for_onchain_secretreveal(
                                 UNIT_SECRET,
                                 transfers_pair[i].payer_transfer.expiration),
                  raised |-> NoError ]
           [] OTHER ->
                onchain_secretreveal_from(channels, transfers_pair, i - 1,
                                          block_number)

\* Reveal the secret if a lock is in the unsafe region: [events, raised].
events_for_onchain_secretreveal(channels, transfers_pair, block_number) ==
    onchain_secretreveal_from(channels, transfers_pair, Len(transfers_pair),
                              block_number)

\* One pair of events_for_unlock_if_closed's loop: the pair is pending and
\* its payer channel is not open.
unlock_if_closed(channels, transfers_pair, i) ==
    /\ i \in get_pending_transfer_pairs(transfers_pair)
    /\ channel_get_status(get_payer_channel(channels, transfers_pair[i]))
           # CHANNEL_STATE_OPENED

\* Unlock on chain if the payer channel is closed and the secret is known:
\* [pairs, events].
events_for_unlock_if_closed(channels, transfers_pair) ==
    [ pairs |-> [ i \in DOMAIN transfers_pair |->
                    IF unlock_if_closed(channels, transfers_pair, i)
                    THEN [ transfers_pair[i] EXCEPT
                             !.payer_state = "payer_waiting_unlock" ]
                    ELSE transfers_pair[i] ],
      events |-> Concat([ i \in DOMAIN transfers_pair |->
                    IF unlock_if_closed(channels, transfers_pair, i)
                    THEN << Event("ContractSendChannelBatchUnlock",
                              transfers_pair[i].payer_transfer.channel_identifier,
                              None) >>
                    ELSE << >> ]) ]

\* The state and the channels secret_learned leaves, given the results of
\* the three events_for_* calls it makes.
secret_learned_result(state, secret, unlock, secret_reveal, balance_proof) ==
    IF balance_proof.raised # NoError
    THEN Raise(state, balance_proof.channels, balance_proof.raised)
    ELSE TransitionResult(
             [ state EXCEPT !.secret = IF @ = None THEN secret ELSE @,
                            !.transfers_pair = balance_proof.pairs ],
             balance_proof.channels,
             secret_reveal.events \o balance_proof.events \o unlock.events)

\* secret_learned from the call of events_for_balanceproof on.
secret_learned_balanceproof(state, channels, block_number, secret, unlock, secret_reveal) ==
    secret_learned_result(
        state, secret, unlock, secret_reveal,
        events_for_balanceproof(channels, secret_reveal.pairs, block_number))

\* secret_learned from the call of set_payee_state_and_check_reveal_order on.
secret_learned_reveal(state, channels, block_number, secret, payee_address, new_payee_state, unlock) ==
    secret_learned_balanceproof(
        state, channels, block_number, secret, unlock,
        events_for_revealsecret(
            set_payee_state_and_check_reveal_order(
                unlock.pairs, payee_address, new_payee_state)))

\* secret_learned once the secret is registered with the channels.
secret_learned_unlock(state, channels, block_number, secret, payee_address, new_payee_state) ==
    secret_learned_reveal(
        state, channels, block_number, secret, payee_address, new_payee_state,
        IF state.secret = None
        THEN events_for_unlock_if_closed(channels, state.transfers_pair)
        ELSE [ pairs |-> state.transfers_pair, events |-> << >> ])

\* Set the state of the payee_address transfer and if necessary send out
\* RevealSecret, SendBalanceProof, and Unlocks.
secret_learned(state, channels, block_number, secret, payee_address, new_payee_state, from_onchain_secretreveal) ==
    secret_learned_unlock(
        state,
        IF state.secret # None
        THEN channels
        ELSE IF from_onchain_secretreveal
        THEN set_onchain_secret(state, channels)
        ELSE set_secret(state, channels),
        block_number, secret, payee_address, new_payee_state)

\* mediate_transfer when no route could be used: the result of the refund.
mediate_transfer_refund(state, refund) ==
    TransitionResult(state, refund.channels, refund.events)

\* mediate_transfer once next_transfer_pair has answered.
mediate_transfer_with(state, payer_channel, payer_transfer, block_number, next) ==
    IF next.pair = << >>
    THEN IF state.transfers_pair # << >>
         THEN mediate_transfer_refund(
                  state,
                  events_for_refund_transfer(
                      state.transfers_pair[1].payer_transfer.channel_identifier,
                      next.channels,
                      state.transfers_pair[1].payer_transfer, block_number))
         ELSE mediate_transfer_refund(
                  state,
                  events_for_refund_transfer(
                      payer_channel, next.channels, payer_transfer, block_number))
    ELSE TransitionResult(
             [ state EXCEPT !.transfers_pair = @ \o next.pair ],
             next.channels, next.events)

\* Try a new route or fail back to a refund (payer_channel is the identifier
\* of the payer's channel).
mediate_transfer(state, possible_routes, payer_channel, channels, payer_transfer, block_number) ==
    IF channels[payer_channel].partner_address # payer_transfer.sender
    THEN Raise(state, channels, "AssertionError")
    ELSE mediate_transfer_with(
             state, payer_channel, payer_transfer, block_number,
             next_transfer_pair(
                 payer_transfer,
                 filter_used_routes(state.transfers_pair, possible_routes),
                 channels, block_number))

\* events.extend(iteration.events) after the events of the channel.
extend_events(channel_events, iteration) ==
    [ iteration EXCEPT !.events = channel_events \o @ ]

handle_init(state_change, channels, block_number) ==
    IF state_change.from_route \notin DOMAIN channels
    THEN TransitionResult(NullState, channels, << >>)
    ELSE IF ~channel_is_valid_lockedtransfer(
                 channels[state_change.from_route], state_change.from_transfer,
                 state_change.message_valid)
    THEN TransitionResult(
             NullState, channels,
             << Event("EventInvalidReceivedLockedTransfer", None, None) >>)
    ELSE extend_events(
             << Event("SendProcessed", CHANNEL_IDENTIFIER_GLOBAL_QUEUE,
                      state_change.from_transfer.sender) >>,
             mediate_transfer(
                 MediatorTransferState(state_change.from_transfer.secrethash),
                 state_change.routes, state_change.from_route,
                 [ channels EXCEPT ![state_change.from_route] =
                     channel_handle_receive_lockedtransfer(
                         @, state_change.from_transfer) ],
                 state_change.from_transfer, block_number))

\* The lock this node sent with the first pair is still locked and its
\* expiration threshold has passed.
lock_has_expired(channel_state, block_number) ==
    /\ channel_state.our_lock = "locked"
    /\ block_number
           > channel_state.our_lock_expiration
               + DEFAULT_NUMBER_OF_CONFIRMATIONS_BLOCK

\* handle_block past the cleanup, given the results of
\* events_for_onchain_secretreveal and set_expired_pairs.
handle_block_result(mediator_state, channels, secret_reveal_events, unlock_fail_events) ==
    IF secret_reveal_events.raised # NoError
    THEN Raise(mediator_state, channels, secret_reveal_events.raised)
    ELSE IF unlock_fail_events.raised # NoError
    THEN Raise(mediator_state, channels, unlock_fail_events.raised)
    ELSE TransitionResult(
             [ mediator_state EXCEPT !.transfers_pair = unlock_fail_events.pairs ],
             channels,
             unlock_fail_events.events \o secret_reveal_events.events)

\* handle_block for the channel of the first pair's payee transfer.
handle_block_on(mediator_state, state_change, channels, block_number, channel_identifier) ==
    IF channel_identifier \notin DOMAIN channels
    THEN Raise(mediator_state, channels, "AttributeError")
    ELSE IF lock_has_expired(channels[channel_identifier],
                             state_change.block_number)
    THEN TransitionResult(
             NullState,
             [ channels EXCEPT ![channel_identifier] =
                 channel_delete_secrethash_endstate(@) ],
             << Event("SendLockExpired", channel_identifier,
                      channels[channel_identifier].partner_address) >>)
    ELSE handle_block_result(
             mediator_state, channels,
             events_for_onchain_secretreveal(
                 channels, mediator_state.transfers_pair, block_number),
             set_expired_pairs(mediator_state.transfers_pair, block_number))

\* Handle the expiration of the hash time locks at a new block.
handle_block(mediator_state, state_change, channels, block_number) ==
    IF mediator_state.transfers_pair = << >>
    THEN Raise(mediator_state, channels, "IndexError")
    ELSE handle_block_on(
             mediator_state, state_change, channels, block_number,
             mediator_state.transfers_pair[1].payee_transfer.channel_identifier)

\* handle_refundtransfer while the secret is unknown, for the channel the
\* refund's balance proof names.
handle_refundtransfer_on(mediator_state, mediator_state_change, channels, block_number, channel_identifier) ==
    IF channel_identifier \notin DOMAIN channels
    THEN Raise(mediator_state, channels, "KeyError")
    ELSE IF ~channel_is_valid_refund(
                 mediator_state.transfers_pair[
                     Len(mediator_state.transfers_pair)].payee_transfer,
                 channels[channel_identifier],
                 mediator_state_change.transfer,
                 mediator_state_change.message_valid)
    THEN TransitionResult(
             NullState, channels,
             << Event("EventInvalidReceivedTransferRefund", None, None) >>)
    ELSE extend_events(
             << Event("SendProcessed", CHANNEL_IDENTIFIER_GLOBAL_QUEUE,
                      mediator_state_change.transfer.sender) >>,
             mediate_transfer(
                 mediator_state, mediator_state_change.routes,
                 channel_identifier,
                 [ channels EXCEPT ![channel_identifier] =
                     channel_handle_receive_lockedtransfer(
                         @, mediator_state_change.transfer) ],
                 mediator_state_change.transfer, block_number))

\* handle_refundtransfer without the test that the secret is unknown.
handle_refundtransfer_with_secret(mediator_state, mediator_state_change, channels, block_number) ==
    IF mediator_state.transfers_pair = << >>
    THEN Raise(mediator_state, channels, "IndexError")
    ELSE handle_refundtransfer_on(
             mediator_state, mediator_state_change, channels, block_number,
             mediator_state_change.transfer.channel_identifier)

\* Validate and handle a ReceiveTransferRefund.
handle_refundtransfer(mediator_state, mediator_state_change, channels, block_number) ==
    IF mediator_state.secret # None
    THEN TransitionResult(mediator_state, channels, << >>)
    ELSE IF mediator_state.transfers_pair = << >>
    THEN Raise(mediator_state, channels, "IndexError")
    ELSE handle_refundtransfer_on(
             mediator_state, mediator_state_change, channels, block_number,
             mediator_state_change.transfer.channel_identifier)

\* handle_secretreveal without the test that the secret is unknown.
handle_secretreveal_of_known_secret(mediator_state, mediator_state_change, channels, block_number) ==
    IF mediator_state_change.secrethash = mediator_state.secrethash
    THEN secret_learned(
             mediator_state, channels, block_number,
             mediator_state_change.secret, mediator_state_change.sender,
             "payee_secret_revealed",
             mediator_state_change.type = "ContractReceiveSecretReveal")
    ELSE TransitionResult(mediator_state, channels, << >>)

\* Validate and handle a ReceiveSecretReveal or a ContractReceiveSecretReveal.
handle_secretreveal(mediator_state, mediator_state_change, channels, block_number) ==
    LET is_secret_unknown == mediator_state.secret = None
        is_valid_reveal ==
            mediator_state_change.secrethash = mediator_state.secrethash
    IN  IF is_secret_unknown /\ is_valid_reveal
        THEN secret_learned(
                 mediator_state, channels, block_number,
                 mediator_state_change.secret, mediator_state_change.sender,
                 "payee_secret_revealed",
                 mediator_state_change.type = "ContractReceiveSecretReveal")
        ELSE TransitionResult(mediator_state, channels, << >>)

\* One pair of handle_unlock's loop: the pair's payer sent the unlock and the
\* channel the unlock names exists.
unlock_reaches_channel(pair, state_change, channels) ==
    /\ pair.payer_transfer.sender = state_change.sender
    /\ state_change.channel_identifier \in DOMAIN channels

\* One pair of handle_unlock's loop: the channel accepts the unlock.
unlock_is_valid(pair, state_change, channels) ==
    /\ unlock_reaches_channel(pair, state_change, channels)
    /\ channel_is_valid_unlock(channels[state_change.channel_identifier],
                               state_change.sender, state_change.message_valid)

\* One pair of handle_unlock's loop: the events it appends.
unlock_events(pair, state_change, channels) ==
    IF unlock_is_valid(pair, state_change, channels)
    THEN << Event("EventUnlockClaimSuccess", None, None),
            Event("SendProcessed", CHANNEL_IDENTIFIER_GLOBAL_QUEUE,
                  state_change.sender) >>
    ELSE IF unlock_reaches_channel(pair, state_change, channels)
    THEN << Event("EventInvalidReceivedUnlock", None, None) >>
    ELSE << >>

\* The loop of handle_unlock from pair i on, with the pairs, the channels
\* and the events as the pairs before left them: [pairs, channels, events].
RECURSIVE handle_unlock_from(_, _, _, _, _)
handle_unlock_from(transfers_pair, channels, unlock_so_far, state_change, i) ==
    IF i > Len(transfers_pair)
    THEN [ pairs |-> transfers_pair, channels |-> channels,
           events |-> unlock_so_far ]
    ELSE handle_unlock_from(
             IF unlock_is_valid(transfers_pair[i], state_change, channels)
             THEN [ transfers_pair EXCEPT ![i].payer_state = "payer_balance_proof" ]
             ELSE transfers_pair,
             IF unlock_is_valid(transfers_pair[i], state_change, channels)
             THEN [ channels EXCEPT ![state_change.channel_identifier] =
                      channel_handle_unlock(@) ]
             ELSE channels,
             unlock_so_far \o unlock_events(transfers_pair[i], state_change, channels),
             state_change, i + 1)

handle_unlock_result(mediator_state, done) ==
    TransitionResult([ mediator_state EXCEPT !.transfers_pair = done.pairs ],
                     done.channels, done.events)

\* Handle a ReceiveUnlock state change.
handle_unlock(mediator_state, state_change, channels) ==
    handle_unlock_result(
        mediator_state,
        handle_unlock_from(mediator_state.transfers_pair, channels, << >>,
                           state_change, 1))

\* Handle a ReceiveLockExpired state change: the channel handles the
\* message, the task is dropped.
handle_lock_expired(mediator_state, state_change, channels) ==
    IF state_change.from_route \notin DOMAIN channels
    THEN Raise(mediator_state, channels, "AttributeError")
    ELSE IF channel_is_valid_lock_expired(channels[state_change.from_route],
                                          state_change.message_valid)
    THEN TransitionResult(
             NullState,
             [ channels EXCEPT ![state_change.from_route] =
                 channel_handle_receive_lock_expired(@) ],
             << Event("SendProcessed", CHANNEL_IDENTIFIER_GLOBAL_QUEUE,
                      channels[state_change.from_route].partner_address) >>)
    ELSE TransitionResult(
             NullState, channels,
             << Event("EventInvalidReceivedLockExpired", None, None) >>)

\* The branch of state_transition the class of the state change selects.
dispatch(mediator_state, state_change, channels, block_number) ==
    CASE state_change.type = "ActionInitMediator" ->
           IF mediator_state.is_null
           THEN handle_init(state_change, channels, block_number)
           ELSE TransitionResult(mediator_state, channels, << >>)
      [] state_change.type = "Block" ->
           handle_block(mediator_state, state_change, channels, block_number)
      [] state_change.type = "ReceiveTransferRefund" ->
           handle_refundtransfer(mediator_state, state_change, channels,
                                 block_number)
      [] state_change.type = "ReceiveSecretReveal" ->
           handle_secretreveal(mediator_state, state_change, channels,
                               block_number)
      [] state_change.type = "ContractReceiveSecretReveal" ->
           handle_secretreveal(mediator_state, state_change, channels,
                               block_number)
      [] state_change.type = "ReceiveUnlock" ->
           handle_unlock(mediator_state, state_change, channels)
      [] state_change.type = "ReceiveLockExpired" ->
           handle_lock_expired(mediator_state, state_change, channels)
      [] OTHER -> TransitionResult(mediator_state, channels, << >>)

\* The end of state_transition: sanity_check on a state that is not None,
\* then clear_if_finalized.
checked_and_cleared(mediator_state, channels, iteration) ==
    IF iteration.raised # NoError
    THEN Raise(mediator_state, channels, iteration.raised)
    ELSE IF ~iteration.new_state.is_null /\ ~sanity_check(iteration.new_state)
    THEN Raise(mediator_state, channels, "AssertionError")
    ELSE clear_if_finalized(iteration)

\* State machine for a node mediating a transfer.
state_transition(mediator_state, state_change, channels, block_number) ==
    checked_and_cleared(
        mediator_state, channels,
        dispatch(mediator_state, state_change, channels, block_number))

\* ------------------------------------------------------------ the host loop

VARIABLES
    mediator_state,     \* the MediatorTransferState of the task, or NullState
    channels,           \* channelidentifiers_to_channels
    block_number,       \* the block number the node has seen last
    events,             \* the events of the last transition
    raised,             \* the exception the last transition raised, or NoError
    created,            \* an ActionInitMediator has been dispatched
    scenario,           \* the numbers of the run: [expiration, horizon]
    raiden_protocol,    \* the RaidenProtocol object of the transport
    stop_and_wait_call, \* where a call of stop_and_wait is
    history             \* the record of the transport's run

vars == << mediator_state, channels, block_number, events, raised,
           created, scenario >>

\* The addresses of the partners, and an address that is no partner.
Addresses == { "A", "B", "C" }
partner_of(channel_identifier) ==
    CASE channel_identifier = "cA" -> "A"
      [] channel_identifier = "cB" -> "B"
      [] channel_identifier = "cC" -> "C"
      [] OTHER -> "X"

\* The route lists a state change may carry, best route first: the routes
\* R1 (over cB) and R2 (over cC), or one route that names a channel the node
\* does not have.
RouteLists == { << "cB", "cC" >>, << "cX" >> }

PAYMENT_IDENTIFIER == "payment"

\* What the channel of the best route may be at the start: usable, without
\* funds to send, or with a settle timeout shorter than the lock's timeout.
RouteKinds == { "usable", "no_funds", "short_settle" }

\* The initial states of a run: no task yet, every channel opened and
\* without locks.
InitWith(first_block, expiration, payer_reveal_timeouts, route_reveal_timeout, short_settle_timeout, horizon) ==
    /\ mediator_state = NullState
    /\ raiden_protocol = None
    /\ stop_and_wait_call = None
    /\ history = None
    /\ \E payer_reveal_timeout \in payer_reveal_timeouts,
          payer_distributable \in { 0, UNIT_AMOUNT },
          route_kind \in RouteKinds :
          channels =
              [ c \in ChannelIds |->
                  CASE c = "cA" ->
                         NettingChannelState("A", payer_reveal_timeout, horizon,
                                             payer_distributable)
                    [] c = "cB" ->
                         NettingChannelState(
                             "B", route_reveal_timeout,
                             IF route_kind = "short_settle"
                             THEN short_settle_timeout ELSE horizon,
                             IF route_kind = "no_funds" THEN 0 ELSE UNIT_AMOUNT)
                    [] OTHER ->
                         NettingChannelState("C", route_reveal_timeout, horizon,
                                             2 * UNIT_AMOUNT) ]
    /\ block_number = first_block
    /\ events = << >>
    /\ raised = NoError
    /\ created = FALSE
    /\ scenario = [ expiration |-> expiration, horizon |-> horizon ]

\* The host takes over what a transition returned; after an exception there
\* is no further transition.
Commit(iteration, block) ==
    /\ block_number' = block
    /\ raised' = iteration.raised
    /\ events' = iteration.events
    /\ mediator_state' = iteration.new_state
    /\ channels' = iteration.channels
    /\ UNCHANGED << scenario, raiden_protocol, stop_and_wait_call, history >>

\* The host applies a state change to the task at the current block.
Apply(change, block) ==
    /\ raised = NoError
    /\ Commit(state_transition(mediator_state, change, channels, block), block)

InitMediator ==
    /\ ~created
    /\ created' = TRUE
    /\ \E from_route \in { "cA", UnknownChannel },
          routes \in RouteLists,
          message_valid \in BOOLEAN :
          Apply([ type |-> "ActionInitMediator", from_route |-> from_route,
                  from_transfer |-> LockedTransfer(
                      TRUE, from_route, partner_of(from_route), UNIT_AMOUNT,
                      scenario.expiration, UNIT_HASHLOCK, PAYMENT_IDENTIFIER),
                  routes |-> routes, message_valid |-> message_valid ],
                block_number)

\* A later ActionInitMediator for the same task.
InitMediatorAgain ==
    /\ created
    /\ ~mediator_state.is_null
    /\ UNCHANGED created
    /\ Apply([ type |-> "ActionInitMediator", from_route |-> "cA",
               from_transfer |-> LockedTransfer(
                   TRUE, "cA", "A", UNIT_AMOUNT,
                   scenario.expiration, UNIT_HASHLOCK, PAYMENT_IDENTIFIER),
               routes |-> << "cB", "cC" >>, message_valid |-> TRUE ],
             block_number)

\* The block numbers the next Block state change may carry: the next block
\* while the lock has not expired, or, the node having been offline, the
\* block after the lock's expiration or a block after the cleanup threshold.
NextBlocks ==
    { block \in (block_number + 1)..scenario.horizon :
        \/ block = block_number + 1 /\ block <= scenario.expiration + 1
        \/ block = scenario.expiration + 1
        \/ block > scenario.expiration + DEFAULT_NUMBER_OF_CONFIRMATIONS_BLOCK }

NewBlock ==
    /\ ~mediator_state.is_null
    /\ UNCHANGED created
    /\ \E block \in NextBlocks :
          Apply([ type |-> "Block", block_number |-> block ], block)

ReceiveSecretReveal ==
    /\ ~mediator_state.is_null
    /\ UNCHANGED created
    /\ \E secret \in { UNIT_SECRET, OtherSecret }, sender \in Addresses :
          Apply([ type |-> "ReceiveSecretReveal", secret |-> secret,
                  secrethash |-> sha3(secret), sender |-> sender ],
                block_number)

ContractReceiveSecretReveal ==
    /\ ~mediator_state.is_null
    /\ UNCHANGED created
    /\ \E secret \in { UNIT_SECRET, OtherSecret }, sender \in Addresses :
          Apply([ type |-> "ContractReceiveSecretReveal", secret |-> secret,
                  secrethash |-> sha3(secret), sender |-> sender ],
                block_number)

ReceiveTransferRefund ==
    /\ ~mediator_state.is_null
    /\ UNCHANGED created
    /\ \E channel_identifier \in ChannelIds \cup { UnknownChannel },
          expiration \in { scenario.expiration, scenario.expiration - 1 },
          routes \in RouteLists :
          Apply([ type |-> "ReceiveTransferRefund",
                  transfer |-> LockedTransfer(
                      TRUE, channel_identifier, partner_of(channel_identifier),
                      UNIT_AMOUNT, expiration, UNIT_HASHLOCK, PAYMENT_IDENTIFIER),
                  routes |-> routes, message_valid |-> TRUE ],
                block_number)

ReceiveUnlock ==
    /\ ~mediator_state.is_null
    /\ UNCHANGED created
    /\ \E channel_identifier \in ChannelIds \cup { UnknownChannel },
          message_valid \in BOOLEAN :
          Apply([ type |-> "ReceiveUnlock",
                  sender |-> partner_of(channel_identifier),
                  channel_identifier |-> channel_identifier,
                  message_valid |-> message_valid ],
                block_number)

ReceiveLockExpired ==
    /\ ~mediator_state.is_null
    /\ UNCHANGED created
    /\ \E from_route \in { "cA", "cB" }, message_valid \in BOOLEAN :
          Apply([ type |-> "ReceiveLockExpired", from_route |-> from_route,
                  message_valid |-> message_valid ],
                block_number)

\* A channel of the node is closed (by the partner or by another task).  The
\* mediator reads the status of a channel only until it has learned the
\* secret (is_channel_usable, events_for_unlock_if_closed and
\* events_for_balanceproof), so later closings are left out.
ChannelClosed ==
    /\ raised = NoError
    /\ created
    /\ ~mediator_state.is_null
    /\ mediator_state.secret = None
    /\ \A c \in ChannelIds : channels[c].status = CHANNEL_STATE_OPENED
    /\ \E c \in ChannelIds :
          /\ channels' = [ channels EXCEPT ![c].status = CHANNEL_STATE_CLOSED ]
    /\ UNCHANGED << mediator_state, block_number, events, raised, created,
                    scenario, raiden_protocol, stop_and_wait_call, history >>

Next ==
    \/ InitMediator
    \/ InitMediatorAgain
    \/ NewBlock
    \/ ReceiveSecretReveal
    \/ ContractReceiveSecretReveal
    \/ ReceiveTransferRefund
    \/ ReceiveUnlock
    \/ ReceiveLockExpired
    \/ ChannelClosed

\* Small numbers: a lock that expires at block 8.
Init == InitWith(3, 8, { 2, 9 }, 2, 4, MaxBlock)

Spec == Init /\ [][Next]_vars

\* A second run with the numbers of the danger-zone scenario: the payer lock
\* expires at block 100 and the payer channel's reveal timeout is 10.
MaxBlockS6 == 106

InitS6 == InitWith(88, 100, { 10 }, 2, 11, MaxBlockS6)

SpecS6 == InitS6 /\ [][Next]_vars

\* ------------------------------------------------------------- properties

pairs == mediator_state.transfers_pair

\* The number of events of a class in a list of events.
CountEvents(event_list, type) ==
    Cardinality({ k \in DOMAIN event_list : event_list[k].type = type })

\* Pair i of the current state has a side that is paid.
PairHasPaidSide(i) ==
    \/ pairs[i].payee_state \in STATE_TRANSFER_PAID
    \/ pairs[i].payer_state \in STATE_TRANSFER_PAID

\* The reveal timeout of the payer channel of pair i.
PayerRevealTimeout(i) ==
    channels[pairs[i].payer_transfer.channel_identifier].reveal_timeout

\* C1: in every non-null state state_transition has returned, a pair with a
\* paid side (payee_contract_unlock, payee_balance_proof or
\* payer_balance_proof) implies that the state's secret is set.
C1_PaidImpliesSecret ==
    (~mediator_state.is_null /\ \E i \in DOMAIN pairs : PairHasPaidSide(i))
        => mediator_state.secret # None

\* A returned state with a paid side (and its secret).
C1_Witness ==
    /\ ~mediator_state.is_null
    /\ \E i \in DOMAIN pairs : PairHasPaidSide(i)
    /\ mediator_state.secret = UNIT_SECRET

\* Pair i's payee is paid and its payer has not paid.
Owed(i) ==
    /\ pairs[i].payee_state = "payee_balance_proof"
    /\ pairs[i].payer_state # "payer_balance_proof"

\* It is safe to wait for the payer of pair i at the block.
SafeAt(i, block) ==
    is_safe_to_wait(pairs[i].payer_transfer.expiration, PayerRevealTimeout(i),
                    block)

\* C2: financial safety.  While a pair's payee is paid and its payer is not,
\* the Block that takes the payer lock from the safe zone into the danger
\* zone emits ContractSendSecretReveal, and no transition before that
\* discards the state unless it is the one that receives the payer's unlock.
C2_FinancialSafety ==
    [][ \A i \in DOMAIN pairs :
          (~mediator_state.is_null /\ Owed(i) /\ SafeAt(i, block_number))
            => /\ (block_number' = block_number + 1 /\ ~SafeAt(i, block_number'))
                    => CountEvents(events', "ContractSendSecretReveal") >= 1
               /\ (SafeAt(i, block_number') /\ mediator_state'.is_null)
                    => CountEvents(events', "EventUnlockClaimSuccess") >= 1
      ]_vars

\* The first half of C2 alone: the Block that enters the danger zone reveals
\* the secret on chain.
C2_RevealAtDangerZone ==
    [][ \A i \in DOMAIN pairs :
          ( /\ ~mediator_state.is_null
            /\ Owed(i)
            /\ SafeAt(i, block_number)
            /\ block_number' = block_number + 1
            /\ ~SafeAt(i, block_number') )
            => CountEvents(events', "ContractSendSecretReveal") >= 1
      ]_vars

\* The state has a pending pair of the danger-zone scenario: payer lock
\* expiration 100, payer channel reveal timeout 10, the secret registered on
\* the partner's side of the payer channel.
HasS6Pair ==
    /\ ~mediator_state.is_null
    /\ \E i \in get_pending_transfer_pairs(pairs) :
          /\ pairs[i].payer_transfer.expiration = 100
          /\ PayerRevealTimeout(i) = 10
          /\ channel_is_secret_known(
                 channels[pairs[i].payer_transfer.channel_identifier])

\* C3 as stated: the Block at 91 emits exactly one ContractSendSecretReveal
\* and the Block at 90 emits none.
C3_Block90EmitsNone ==
    [][ (HasS6Pair /\ block_number' # block_number)
          => /\ block_number' = 91
                  => CountEvents(events', "ContractSendSecretReveal") = 1
             /\ block_number' = 90
                  => CountEvents(events', "ContractSendSecretReveal") = 0
      ]_vars

\* C3 amended: the Block at 91 emits exactly one ContractSendSecretReveal,
\* and so does the Block at 90 (a timeout of 10 is not larger than the reveal
\* timeout of 10); the last Block that emits none is the one at 89.
C3_Block89EmitsNone ==
    [][ (HasS6Pair /\ block_number' # block_number)
          => /\ block_number' \in { 90, 91 }
                  => CountEvents(events', "ContractSendSecretReveal") = 1
             /\ block_number' = 89
                  => CountEvents(events', "ContractSendSecretReveal") = 0
      ]_vars

\* The Block at 91 has emitted its ContractSendSecretReveal.
C3_Witness ==
    /\ HasS6Pair
    /\ block_number = 91
    /\ CountEvents(events, "ContractSendSecretReveal") = 1

\* In this step the balance proof went to the payee of pair i.
UnlockSentTo(i) ==
    /\ ~mediator_state'.is_null
    /\ i \in DOMAIN mediator_state'.transfers_pair
    /\ mediator_state'.transfers_pair[i].payee_state = "payee_balance_proof"
    /\ pairs[i].payee_state # "payee_balance_proof"

\* The step has emitted a SendUnlock on the payee channel of pair i.
SendUnlockEmittedFor(i) ==
    \E k \in DOMAIN events' :
        /\ events'[k].type = "SendUnlock"
        /\ events'[k].channel = pairs[i].payee_transfer.channel_identifier

\* What events_for_balanceproof requires of pair i: the payee channel is
\* opened, the payee knows the secret once the reveal of this step is
\* recorded and is not paid, and the payer lock is out of the danger zone.
UnlockConditions(i) ==
    /\ channel_get_status(channels[pairs[i].payee_transfer.channel_identifier])
           = CHANNEL_STATE_OPENED
    /\ pairs[i].payee_state \notin STATE_TRANSFER_PAID
    /\ \E sender \in Addresses :
          set_payee_state_and_check_reveal_order(
              pairs, sender, "payee_secret_revealed")[i].payee_state
              \in STATE_SECRET_KNOWN \ STATE_TRANSFER_PAID
    /\ pairs[i].payer_transfer.expiration - block_number' > PayerRevealTimeout(i)

\* C4: a SendUnlock (with EventUnlockSuccess) is emitted toward a pair's
\* payee, and the pair's payee_state set to payee_balance_proof, only in a
\* transition in which the payee channel is opened, the payee knows the
\* secret and is not paid, and payer expiration - block > payer reveal timeout.
C4_UnlockOnlyWhenSafe ==
    [][ /\ \A i \in DOMAIN pairs :
              UnlockSentTo(i)
                => /\ UnlockConditions(i)
                   /\ SendUnlockEmittedFor(i)
                   /\ CountEvents(events', "EventUnlockSuccess") >= 1
        /\ \A k \in DOMAIN events' :
              events'[k].type = "SendUnlock"
                => \E i \in DOMAIN pairs :
                      /\ UnlockSentTo(i)
                      /\ events'[k].channel
                             = pairs[i].payee_transfer.channel_identifier
      ]_vars

\* After a refund the payee of the second pair has been sent the balance
\* proof.
C4_Witness ==
    /\ ~mediator_state.is_null
    /\ Len(pairs) = 2
    /\ pairs[2].payee_state = "payee_balance_proof"
    /\ \E k \in DOMAIN events :
          /\ events[k].type = "SendUnlock"
          /\ events[k].channel = pairs[2].payee_transfer.channel_identifier
    /\ CountEvents(events, "EventUnlockSuccess") = 1

\* ReceiveSecretReveal with the secret of the transfer, from the payee of
\* the only pair, applied to the current state at the current block.
RevealFromPayee ==
    state_transition(
        mediator_state,
        [ type |-> "ReceiveSecretReveal", secret |-> UNIT_SECRET,
          secrethash |-> sha3(UNIT_SECRET), sender |-> pairs[1].payee_address ],
        channels, block_number)

\* The state has one pair, whose payee is pending; the secret is not known
\* yet, the payee channel is opened and the payer lock is larger than the
\* payer channel's reveal timeout.
OnePendingPair ==
    /\ raised = NoError
    /\ ~mediator_state.is_null
    /\ Len(pairs) = 1
    /\ pairs[1].payee_state = "payee_pending"
    /\ mediator_state.secret = None
    /\ channel_get_status(channels[pairs[1].payee_transfer.channel_identifier])
           = CHANNEL_STATE_OPENED
    /\ pairs[1].payer_transfer.expiration > PayerRevealTimeout(1)

\* The reveal has moved the only pair's payee to payee_balance_proof.
RevealPaysPayee ==
    /\ RevealFromPayee.raised = NoError
    /\ ~RevealFromPayee.new_state.is_null
    /\ RevealFromPayee.new_state.transfers_pair[1].payee_state
           = "payee_balance_proof"

C6_ExpiredPayerAfterPaidPayee ==
    [][ \A i \in DOMAIN pairs :
          ( /\ ~mediator_state.is_null
            /\ block_number' # block_number
            /\ block_number' > pairs[i].payer_transfer.expiration
            /\ pairs[i].payee_state = "payee_balance_proof"
            /\ pairs[i].payer_state \notin { "payer_balance_proof", "payer_expired" } )
            => /\ raised' = NoError
               /\ ~mediator_state'.is_null
               /\ mediator_state'.transfers_pair[i].payer_state = "payer_expired"
      ]_vars

\* The payer lock of a pair whose payee was sent the balance proof has
\* expired at a Block.
C6_Witness ==
    /\ ~mediator_state.is_null
    /\ raised = NoError
    /\ mediator_state.secret # None
    /\ CountEvents(events, "EventUnlockClaimFailed") >= 1
    /\ \E i \in DOMAIN pairs :
          /\ block_number > pairs[i].payer_transfer.expiration
          /\ pairs[i].payer_state = "payer_expired"
          /\ channels[pairs[i].payee_transfer.channel_identifier].our_lock = "none"

\* C7: state_transition never raises for the state changes applied to a
\* state that InitMediator has produced.
C7_NeverRaises ==
    created => raised = NoError

\* Every pair of the current state has a paid payee, and a payer that is
\* paid or whose unlock this step has claimed.
AllPaidByThisStep ==
    \A i \in DOMAIN pairs :
        /\ pairs[i].payee_state \in STATE_TRANSFER_PAID
        /\ \/ pairs[i].payer_state \in STATE_TRANSFER_PAID
           \/ CountEvents(events', "EventUnlockClaimSuccess") >= 1

\* This step is a Block beyond the first pair's lock expiration plus the
\* confirmation blocks.
BlockBeyondThreshold ==
    /\ block_number' # block_number
    /\ block_number' > pairs[1].payee_transfer.expiration
                           + DEFAULT_NUMBER_OF_CONFIRMATIONS_BLOCK

\* C8: a mediator state becomes null only in a transition that leaves every
\* pair paid on both sides, or in a Block whose number exceeds the first
\* pair's lock expiration + DEFAULT_NUMBER_OF_CONFIRMATIONS_BLOCK.
C8_DestroyedOnlyWhenPaidOrExpired ==
    [][ (~mediator_state.is_null /\ mediator_state'.is_null)
          => (AllPaidByThisStep \/ BlockBeyondThreshold)
      ]_vars

\* The ReceiveUnlock state changes of the payer of the first pair.
UnlockChanges ==
    { [ type |-> "ReceiveUnlock", sender |-> partner_of(c),
        channel_identifier |-> c, message_valid |-> TRUE ] : c \in ChannelIds }

\* C9: no non-null state that state_transition has returned has all of its
\* pairs paid on both sides; and when the handler of a ReceiveUnlock leaves
\* every pair paid, state_transition returns the null state together with
\* the handler's events.
C9_AllPaidReturnsNull ==
    /\ ~mediator_state.is_null => ~all_finalized(mediator_state)
    /\ (raised = NoError /\ ~mediator_state.is_null)
         => \A change \in UnlockChanges :
               all_finalized(
                   handle_unlock(mediator_state, change, channels).new_state)
                 => /\ state_transition(mediator_state, change, channels,
                                        block_number).new_state.is_null
                    /\ state_transition(mediator_state, change, channels,
                                        block_number).events
                           = handle_unlock(mediator_state, change, channels).events

\* The payer's unlock has completed the payment: the state is gone and the
\* events of the transition are there.
C9_Witness ==
    /\ created
    /\ raised = NoError
    /\ mediator_state.is_null
    /\ CountEvents(events, "EventUnlockClaimSuccess") = 1
    /\ CountEvents(events, "SendProcessed") = 1

\* The refund of the transfer sent over R2 (cC), with the routes [R1, R2].
RefundFromR2 ==
    [ type |-> "ReceiveTransferRefund",
      transfer |-> LockedTransfer(TRUE, "cC", "C", UNIT_AMOUNT,
                                  scenario.expiration, UNIT_HASHLOCK,
                                  PAYMENT_IDENTIFIER),
      routes |-> << "cB", "cC" >>, message_valid |-> TRUE ]

\* What state_transition returns for the refund in the current state.
AfterRefund ==
    state_transition(mediator_state, RefundFromR2, channels, block_number)

\* With the routes [R1, R2], R1 was unusable and R2 has been selected; the
\* secret is unknown and the refund from R2 is valid.
R2Selected ==
    /\ raised = NoError
    /\ ~mediator_state.is_null
    /\ Len(pairs) = 1
    /\ pairs[1].payee_transfer.channel_identifier = "cC"
    /\ mediator_state.secret = None
    /\ channel_is_valid_refund(pairs[1].payee_transfer, channels["cC"],
                               RefundFromR2.transfer, TRUE)

\* A channel is usable for the transfer at the current block.
UsableNow(channel_identifier) ==
    is_channel_usable(channels[channel_identifier], UNIT_AMOUNT,
                      scenario.expiration - block_number)

\* The refund has selected no route: no pair is appended, and the refund
\* transfer goes out on the payer channel of the first pair if that channel
\* is usable; if it is not, nothing but the acknowledgement of the refund
\* message is emitted.
RefundGoesBack ==
    /\ AfterRefund.raised = NoError
    /\ ~AfterRefund.new_state.is_null
    /\ Len(AfterRefund.new_state.transfers_pair) = 1
    /\ CountEvents(AfterRefund.events, "SendMediatedTransfer") = 0
    /\ IF UsableNow(pairs[1].payer_transfer.channel_identifier)
       THEN /\ CountEvents(AfterRefund.events, "SendRefundTransfer") = 1
            /\ \E k \in DOMAIN AfterRefund.events :
                  /\ AfterRefund.events[k].type = "SendRefundTransfer"
                  /\ AfterRefund.events[k].channel
                         = pairs[1].payer_transfer.channel_identifier
       ELSE Len(AfterRefund.events)
                = CountEvents(AfterRefund.events, "SendProcessed")

\* The first InitMediator, with the routes [R1, R2].
InitWithBothRoutes ==
    [ type |-> "ActionInitMediator", from_route |-> "cA",
      from_transfer |-> LockedTransfer(TRUE, "cA", "A", UNIT_AMOUNT,
                                       scenario.expiration, UNIT_HASHLOCK,
                                       PAYMENT_IDENTIFIER),
      routes |-> << "cB", "cC" >>, message_valid |-> TRUE ]

\* With R1 unusable and R2 usable, mediate_transfer selects R2.
R2IsSelectedFirst ==
    (~created /\ ~UsableNow("cB") /\ UsableNow("cC"))
      => LET first == state_transition(mediator_state, InitWithBothRoutes,
                                       channels, block_number)
         IN  /\ ~first.new_state.is_null
             /\ Len(first.new_state.transfers_pair) = 1
             /\ first.new_state.transfers_pair[1].payee_transfer.channel_identifier
                    = "cC"

\* C10 as stated: R1 having been unusable when R2 was selected, the refund
\* from R2 selects neither R1 nor R2 and sends the refund back on the payer
\* channel of the first pair if that channel is usable.
C10_RefundNeverSelectsR1 ==
    /\ R2IsSelectedFirst
    /\ R2Selected => RefundGoesBack

\* C10 amended: R2 is filtered as a used route; R1 is not filtered, so the
\* refund from R2 selects no route provided R1's channel is still unusable at
\* the block of the refund; the refund transfer then goes out on the payer
\* channel of the first pair if that channel is usable, and otherwise nothing
\* is sent and no pair is appended.
C10_RefundSkipsUnusableR1 ==
    /\ R2IsSelectedFirst
    /\ (R2Selected /\ ~UsableNow("cB")) => RefundGoesBack

\* The refund from R2 has been answered with a refund on the payer channel.
C10_Witness ==
    /\ ~mediator_state.is_null
    /\ Len(pairs) = 1
    /\ pairs[1].payee_transfer.channel_identifier = "cC"
    /\ channels["cC"].partner_lock = "locked"
    /\ \E k \in DOMAIN events :
          /\ events[k].type = "SendRefundTransfer"
          /\ events[k].channel = "cA"

\* The state changes of the idempotence check at the current block: the
\* next Block, the reveal of the secret by each next hop, a refund over each
\* route and the unlock of the first payer.
RepeatableChanges ==
    { [ type |-> "Block", block_number |-> block_number + 1 ] }
    \cup
    { [ type |-> t, secret |-> UNIT_SECRET, secrethash |-> sha3(UNIT_SECRET),
        sender |-> a ] :
        t \in { "ReceiveSecretReveal", "ContractReceiveSecretReveal" },
        a \in { "B", "C" } }
    \cup
    { [ type |-> "ReceiveTransferRefund",
        transfer |-> LockedTransfer(TRUE, c, partner_of(c), UNIT_AMOUNT,
                                    scenario.expiration, UNIT_HASHLOCK,
                                    PAYMENT_IDENTIFIER),
        routes |-> << "cB", "cC" >>, message_valid |-> TRUE ] :
        c \in { "cB", "cC" } }
    \cup
    { [ type |-> "ReceiveUnlock", sender |-> "A", channel_identifier |-> "cA",
        message_valid |-> TRUE ] }

\* The block a state change is applied at.
BlockOf(change) ==
    IF change.type = "Block" THEN change.block_number ELSE block_number

\* The first application of a state change to the current state.
Once(change) ==
    state_transition(mediator_state, change, channels, BlockOf(change))

\* The application of the same state change to what the first one returned.
Twice(change, first) ==
    state_transition(first.new_state, change, first.channels, BlockOf(change))

\* Events whose effect is a no-op: acknowledgements and notes of an invalid
\* message.
NoOpEvents ==
    { "SendProcessed", "EventInvalidReceivedLockedTransfer",
      "EventInvalidReceivedTransferRefund", "EventInvalidReceivedUnlock",
      "EventInvalidReceivedLockExpired" }

\* The second application changes nothing and emits at most no-op events.
RepeatIsNoOp(first, second) ==
    /\ second.raised = NoError
    /\ second.new_state = first.new_state
    /\ second.channels = first.channels
    /\ \A k \in DOMAIN second.events : second.events[k].type \in NoOpEvents

\* C11: idempotence.  For every reachable state and every state change, if
\* the change yields (s', events), the same change applied to s' yields s'
\* unchanged with no events or only no-op events.
C11_Idempotent ==
    (raised = NoError /\ ~mediator_state.is_null)
      => \A change \in RepeatableChanges :
            (Once(change).raised = NoError /\ ~Once(change).new_state.is_null)
              => RepeatIsNoOp(Once(change), Twice(change, Once(change)))

\* C11 for the Block alone.
C11_BlockIdempotent ==
    (raised = NoError /\ ~mediator_state.is_null)
      => \A change \in { c \in RepeatableChanges : c.type = "Block" } :
            (Once(change).raised = NoError /\ ~Once(change).new_state.is_null)
              => RepeatIsNoOp(Once(change), Twice(change, Once(change)))

\* The number of pending pairs of the current state.
PendingPairs == get_pending_transfer_pairs(pairs)

\* This step is a Block that has returned.
BlockReturned ==
    /\ ~mediator_state.is_null
    /\ block_number' # block_number
    /\ raised' = NoError

\* The failure events of the step: the numbers of EventUnlockClaimFailed and
\* of EventUnlockFailed.
FailureEvents ==
    << CountEvents(events', "EventUnlockClaimFailed"),
       CountEvents(events', "EventUnlockFailed") >>

\* C12: for each pending pair, a Block up to the lock's expiration leaves
\* payer_state and payee_state unchanged and emits no failure event; the first
\* Block after the expiration sets payer_expired and payee_expired with one
\* EventUnlockClaimFailed and one EventUnlockFailed for the pair; later
\* Blocks emit neither again.
C12_ExpirationOnBlock ==
    [][ BlockReturned
          => /\ \A i \in PendingPairs :
                  /\ block_number' <= pairs[i].payer_transfer.expiration
                       => /\ ~mediator_state'.is_null
                          /\ mediator_state'.transfers_pair[i] = pairs[i]
                          /\ FailureEvents = << 0, 0 >>
                  /\ ( /\ block_number <= pairs[i].payer_transfer.expiration
                       /\ block_number' > pairs[i].payer_transfer.expiration )
                       => /\ ~mediator_state'.is_null
                          /\ mediator_state'.transfers_pair[i].payer_state
                                 = "payer_expired"
                          /\ mediator_state'.transfers_pair[i].payee_state
                                 = "payee_expired"
                          /\ FailureEvents
                                 = << Cardinality(PendingPairs),
                                      Cardinality(PendingPairs) >>
             /\ block_number > scenario.expiration
                  => FailureEvents = << 0, 0 >>
      ]_vars

\* C12 where the first Block after the expiration arrives before the cleanup
\* threshold: the part of C12 about later Blocks.
C12_LaterBlocksEmitNothing ==
    [][ (BlockReturned /\ block_number > scenario.expiration)
          => FailureEvents = << 0, 0 >>
      ]_vars

\* C12 without the part about later Blocks, for a first Block after the
\* expiration that is not beyond the cleanup threshold.
C12_FirstBlockAfterExpiration ==
    [][ BlockReturned
          => \A i \in PendingPairs :
                  /\ block_number' <= pairs[i].payer_transfer.expiration
                       => /\ ~mediator_state'.is_null
                          /\ mediator_state'.transfers_pair[i] = pairs[i]
                          /\ FailureEvents = << 0, 0 >>
                  /\ ( /\ block_number <= pairs[i].payer_transfer.expiration
                       /\ block_number' > pairs[i].payer_transfer.expiration
                       /\ block_number' <= pairs[i].payer_transfer.expiration
                              + DEFAULT_NUMBER_OF_CONFIRMATIONS_BLOCK )
                       => /\ ~mediator_state'.is_null
                          /\ mediator_state'.transfers_pair[i].payer_state
                                 = "payer_expired"
                          /\ mediator_state'.transfers_pair[i].payee_state
                                 = "payee_expired"
                          /\ FailureEvents
                                 = << Cardinality(PendingPairs),
                                      Cardinality(PendingPairs) >>
      ]_vars

\* ------------------------------------------------------ the transport core
\*
\* The RaidenProtocol object of network/protocol.py with its collaborators
\* (the datagram transport, the discovery and the host's on_message), and
\* the greenlets it spawns.  A greenlet runs until it blocks; an event that
\* is set marks at once every composite event linked to it (event_first_of),
\* and the greenlets that wait on those continue at some later step.

OUR_ADDRESS == "N"
Destinations == { "B", "C" }

NODE_NETWORK_UNKNOWN == "unknown"
NODE_NETWORK_UNREACHABLE == "unreachable"
NODE_NETWORK_REACHABLE == "reachable"

UDP_MAX_MESSAGE_SIZE == 1200

\* The business exceptions of the host that receive swallows.
SwallowedExceptions ==
    { "UnknownAddress", "InvalidNonce", "TransferWhenClosed",
      "TransferUnwanted", "UnknownTokenAddress", "InvalidLocksRoot" }

\* A map with one more entry.
Put(map, key, value) ==
    [ k \in DOMAIN map \cup { key } |-> IF k = key THEN value ELSE map[k] ]

\* The messages: an Ack, a Ping and an application message of a token (a
\* SignedMessage) of a given encoded size.
Ack(sender, echo) ==
    [ cmdid |-> "Ack", sender |-> sender, echo |-> echo ]
Ping(nonce) ==
    [ cmdid |-> "Ping", sender |-> None, nonce |-> nonce ]
SignedMessage(sender, token, identifier, size) ==
    [ cmdid |-> "Transfer", sender |-> sender, token |-> token,
      identifier |-> identifier, size |-> size ]
sign(message, address) == [ message EXCEPT !.sender = address ]

\* The wire codec: the bytes of a message are the tuple of its fields, and
\* decode reads them back; other bytes are no message.
encode(message) ==
    CASE message.cmdid = "Ack" ->
           << "Ack", message.sender, message.echo >>
      [] message.cmdid = "Ping" ->
           << "Ping", message.sender, message.nonce >>
      [] OTHER ->
           << "Transfer", message.sender, message.token, message.identifier,
              message.size >>
decode(data) ==
    CASE data[1] = "Ack" -> Ack(data[2], data[3])
      [] data[1] = "Ping" -> sign(Ping(data[3]), data[2])
      [] data[1] = "Transfer" ->
           SignedMessage(data[2], data[3], data[4], data[5])
      [] OTHER -> [ cmdid |-> "Invalid", sender |-> None ]
len(data) ==
    CASE data[1] = "Transfer" -> data[5]
      [] data[1] = "Ack" -> 52
      [] data[1] = "Ping" -> 76
      [] OTHER -> 8

\* sha3(data + address): the digest of the bytes followed by the address.
echohash_of(data, address) == << "sha3", data, address >>

\* The token of a message, '' for a message without one.
token_of(message) ==
    IF message.cmdid = "Transfer" THEN message.token ELSE ""

\* What an operation returns: the object after it, the value returned and
\* the exception raised (NoError for none).
Returned(protocol, value, error) ==
    [ protocol |-> protocol, value |-> value, raised |-> error ]

\* timeout_exponential_backoff and the two other iterators retry is given: a
\* list of a number of equal timeouts and repeat(timeout).
timeout_exponential_backoff(retries, timeout, maximum) ==
    [ kind |-> "backoff", phase |-> "first", tries |-> 0, timeout |-> timeout,
      retries |-> retries, maximum |-> maximum ]
timeout_list(timeout, count) ==
    [ kind |-> "list", phase |-> "list", tries |-> 0, timeout |-> timeout,
      retries |-> count, maximum |-> timeout ]
timeout_repeat(timeout) ==
    [ kind |-> "repeat", phase |-> "repeat", tries |-> 0, timeout |-> timeout,
      retries |-> 0, maximum |-> timeout ]
no_timeouts == timeout_list(0, 0)

Min(a, b) == IF a < b THEN a ELSE b

\* next() of an iterator: the value it yields (None when it is exhausted)
\* and the iterator after it.
next_timeout(iterator) ==
    CASE iterator.kind = "repeat" ->
           [ exhausted |-> FALSE, value |-> iterator.timeout,
             iterator |-> iterator ]
      [] iterator.kind = "list" ->
           IF iterator.tries < iterator.retries
           THEN [ exhausted |-> FALSE, value |-> iterator.timeout,
                  iterator |-> [ iterator EXCEPT !.tries = @ + 1 ] ]
           ELSE [ exhausted |-> TRUE, value |-> 0, iterator |-> iterator ]
      [] iterator.phase = "first" ->
           [ exhausted |-> FALSE, value |-> iterator.timeout,
             iterator |-> [ iterator EXCEPT !.phase = "flat", !.tries = 1 ] ]
      [] iterator.phase = "flat" /\ iterator.tries < iterator.retries ->
           [ exhausted |-> FALSE, value |-> iterator.timeout,
             iterator |-> [ iterator EXCEPT !.tries = @ + 1 ] ]
      [] iterator.phase \in { "flat", "double" }
           /\ iterator.timeout < iterator.maximum ->
           [ exhausted |-> FALSE,
             value |-> Min(iterator.timeout * 2, iterator.maximum),
             iterator |-> [ iterator EXCEPT
                              !.phase = "double",
                              !.timeout = Min(@ * 2, iterator.maximum) ] ]
      [] OTHER ->
           [ exhausted |-> FALSE, value |-> iterator.maximum,
             iterator |-> [ iterator EXCEPT !.phase = "maximum" ] ]

\* The object RaidenProtocol.__init__ builds, with a transport that is not
\* started, the discovery's endpoints and a host that has seen no message.
RaidenProtocol(endpoints, retry_interval, retries_before_backoff, nat_keepalive_retries, nat_keepalive_timeout, nat_invitation_timeout) ==
    [ transport |-> [ accepting |-> FALSE, started |-> FALSE, sent |-> << >> ],
      discovery |-> endpoints,
      get_host_port_cache |-> << >>,
      raiden |-> [ address |-> OUR_ADDRESS, on_message_calls |-> << >> ],
      retry_interval |-> retry_interval,
      retries_before_backoff |-> retries_before_backoff,
      nat_keepalive_retries |-> nat_keepalive_retries,
      nat_keepalive_timeout |-> nat_keepalive_timeout,
      nat_invitation_timeout |-> nat_invitation_timeout,
      event_stop |-> FALSE,
      channel_queue |-> << >>,
      greenlets |-> << >>,
      tasks |-> << >>,
      addresses_events |-> << >>,
      nodeaddresses_networkstatuses |->
          [ a \in Destinations |-> NODE_NETWORK_UNKNOWN ],
      receivedhashes_to_acks |-> << >>,
      senthashes_to_states |-> << >>,
      async_results |-> << >>,
      nodeaddresses_to_nonces |-> << >> ]

\* transport.send: a best-effort datagram to an endpoint.
transport_send(protocol, host_port, data) ==
    [ protocol EXCEPT !.transport.sent = Append(@, << host_port, data >>) ]

\* get_host_port, discovery.get behind a cache whose entries expire: the
\* endpoint of an address, None when the discovery raises for it.
get_host_port(protocol, address) ==
    IF address \in DOMAIN protocol.get_host_port_cache
    THEN protocol.get_host_port_cache[address]
    ELSE IF address \in DOMAIN protocol.discovery
         THEN protocol.discovery[address]
         ELSE None

\* The cache after get_host_port: a value that was returned is kept.
get_host_port_cached(protocol, address) ==
    IF get_host_port(protocol, address) = None
    THEN protocol
    ELSE [ protocol EXCEPT !.get_host_port_cache =
               Put(@, address, get_host_port(protocol, address)) ]

\* The greenlet ids: one healthcheck per address and one single_queue_send
\* per (address, token).
HealthTask(receiver_address) == << "healthcheck", receiver_address, "" >>
QueueTask(receiver_address, token_address) ==
    << "single_queue_send", receiver_address, token_address >>

\* A greenlet: where it is blocked (pc), the bytes it is sending, the
\* composite events it has built and its timeout iterator.
Greenlet(kind, receiver_address, token_address, pc, data_or_stop) ==
    [ kind |-> kind, receiver_address |-> receiver_address,
      token_address |-> token_address, pc |-> pc, data |-> << >>,
      data_or_stop |-> data_or_stop, stop_or_unhealthy |-> FALSE,
      event_quit |-> FALSE, event_recovery |-> FALSE,
      timeout_backoff |-> no_timeouts ]

\* The positions at which a greenlet is inside retry, and inside
\* retry_with_recovery.
RetryPcs == { "retry_wait", "ping_wait", "invitation_wait" }
RecoveryPcs == { "retry_wait", "wait_recovery", "recovery_sleep" }

\* The value of an outbound future: "pending", "true" or "false".
async_result_of(protocol, echohash) ==
    protocol.async_results[protocol.senthashes_to_states[echohash].async_result]
ready(protocol, echohash) == async_result_of(protocol, echohash) # "pending"

\* AsyncResult.set: the value is stored and the event_quit of every retry
\* that waits for this result is set.
async_result_set(protocol, echohash, value) ==
    [ protocol EXCEPT
        !.async_results[protocol.senthashes_to_states[echohash].async_result]
            = value,
        !.tasks = [ t \in DOMAIN @ |->
            IF /\ @[t].pc \in RetryPcs
               /\ echohash_of(@[t].data, @[t].receiver_address) = echohash
            THEN [ @[t] EXCEPT !.event_quit = TRUE ]
            ELSE @[t] ] ]

\* event_stop.set() that reaches no composite event.
event_stop_set_without_links(protocol) ==
    [ protocol EXCEPT !.event_stop = TRUE ]

\* event_stop.set(): every composite event is linked to it.
event_stop_set(protocol) ==
    [ protocol EXCEPT
        !.event_stop = TRUE,
        !.tasks = [ t \in DOMAIN @ |->
            [ @[t] EXCEPT
                !.data_or_stop = @ \/ protocol.tasks[t].kind = "single_queue_send",
                !.stop_or_unhealthy = @ \/ protocol.tasks[t].pc \in RecoveryPcs,
                !.event_quit = @ \/ protocol.tasks[t].pc \in RetryPcs,
                !.event_recovery = @ \/ protocol.tasks[t].pc = "wait_recovery" ] ] ]

\* event_unhealthy.set() without the event_healthy.clear() before it.
event_unhealthy_set_without_clear(protocol, receiver_address) ==
    [ protocol EXCEPT
        !.addresses_events[receiver_address] =
            [ @ EXCEPT !.event_unhealthy = TRUE ],
        !.tasks = [ t \in DOMAIN @ |->
            IF /\ @[t].kind = "single_queue_send"
               /\ @[t].receiver_address = receiver_address
               /\ @[t].pc \in RecoveryPcs
            THEN [ @[t] EXCEPT !.stop_or_unhealthy = TRUE,
                               !.event_quit = @ \/ protocol.tasks[t].pc = "retry_wait" ]
            ELSE @[t] ] ]

\* event_unhealthy.set() after event_healthy.clear(): the stop_or_unhealthy
\* of the queue tasks of the address is set, and with it their event_quit.
event_unhealthy_set(protocol, receiver_address) ==
    [ protocol EXCEPT
        !.addresses_events[receiver_address] =
            [ event_healthy |-> FALSE, event_unhealthy |-> TRUE ],
        !.tasks = [ t \in DOMAIN @ |->
            IF /\ @[t].kind = "single_queue_send"
               /\ @[t].receiver_address = receiver_address
               /\ @[t].pc \in RecoveryPcs
            THEN [ @[t] EXCEPT !.stop_or_unhealthy = TRUE,
                               !.event_quit = @ \/ protocol.tasks[t].pc = "retry_wait" ]
            ELSE @[t] ] ]

\* event_healthy.set() after event_unhealthy.clear(): the tasks that wait
\* for the recovery of the address are woken.
event_healthy_set(protocol, receiver_address) ==
    [ protocol EXCEPT
        !.addresses_events[receiver_address] =
            [ event_healthy |-> TRUE, event_unhealthy |-> FALSE ],
        !.tasks = [ t \in DOMAIN @ |->
            IF /\ @[t].receiver_address = receiver_address
               /\ @[t].pc = "wait_recovery"
            THEN [ @[t] EXCEPT !.event_recovery = TRUE ]
            ELSE @[t] ] ]

\* send_raw_with_result: the future of (data, receiver_address) is looked up
\* or created, and the data is transmitted unless the future is resolved.
\* It raises when the endpoint of the receiver cannot be discovered.
send_raw_with_result_known(protocol, data, receiver_address, echohash) ==
    IF ready(protocol, echohash)
    THEN Returned(protocol, protocol.senthashes_to_states[echohash].async_result, NoError)
    ELSE Returned(transport_send(protocol, get_host_port(protocol, receiver_address), data),
                  protocol.senthashes_to_states[echohash].async_result, NoError)

new_async_result(protocol, echohash, receiver_address) ==
    [ protocol EXCEPT
        !.async_results = Append(@, "pending"),
        !.senthashes_to_states =
            Put(@, echohash,
                [ async_result |-> Len(protocol.async_results) + 1,
                  receiver_address |-> receiver_address ]) ]

send_raw_with_result(protocol, data, receiver_address) ==
    IF get_host_port(protocol, receiver_address) = None
    THEN Returned(protocol, 0, "UnknownAddress")
    ELSE IF echohash_of(data, receiver_address) \in DOMAIN protocol.senthashes_to_states
         THEN send_raw_with_result_known(
                  get_host_port_cached(protocol, receiver_address), data,
                  receiver_address, echohash_of(data, receiver_address))
         ELSE send_raw_with_result_known(
                  new_async_result(get_host_port_cached(protocol, receiver_address),
                                   echohash_of(data, receiver_address),
                                   receiver_address),
                  data, receiver_address, echohash_of(data, receiver_address))

\* The flags of the health events of an address.
is_unhealthy(protocol, receiver_address) ==
    protocol.addresses_events[receiver_address].event_unhealthy
is_healthy(protocol, receiver_address) ==
    protocol.addresses_events[receiver_address].event_healthy

\* A greenlet that has returned, and one that an exception has ended.
greenlet_ended(protocol, t, pc) ==
    [ protocol EXCEPT !.tasks[t] =
        Greenlet(@.kind, @.receiver_address, @.token_address, pc, FALSE) ]
greenlet_finished(protocol, t) == greenlet_ended(protocol, t, "finished")
greenlet_killed(protocol, t) == greenlet_ended(protocol, t, "killed")

\* A greenlet blocked at a wait of retry: on event_quit, for at most the
\* timeout the iterator has yielded.
retry_waiting(protocol, t, pc, event_quit, step) ==
    [ protocol EXCEPT !.tasks[t] =
        [ @ EXCEPT !.pc = pc, !.event_quit = event_quit,
                   !.timeout_backoff = step.iterator ] ]

\* single_queue_send blocked at data_or_stop.wait().
queue_waiting(protocol, t, data_or_stop) ==
    [ protocol EXCEPT !.tasks[t] =
        Greenlet(@.kind, @.receiver_address, @.token_address, "wait_data",
                 data_or_stop) ]

\* single_queue_send that clears data_or_stop after every removal, the queue
\* being empty or not.
single_queue_send_after_clearing(protocol, t, key, acknowledged) ==
    IF ~acknowledged
    THEN queue_waiting(protocol, t, protocol.tasks[t].data_or_stop)
    ELSE IF protocol.event_stop
         THEN greenlet_finished(
                  [ protocol EXCEPT !.channel_queue[key] = Tail(@) ], t)
         ELSE queue_waiting(
                  [ protocol EXCEPT !.channel_queue[key] = Tail(@) ], t, FALSE)

\* single_queue_send after retry_with_recovery has returned: an acknowledged
\* head is removed, data_or_stop is cleared with the last element, and the
\* task waits for data again.
single_queue_send_after(protocol, t, key, acknowledged) ==
    IF ~acknowledged
    THEN queue_waiting(protocol, t, protocol.tasks[t].data_or_stop)
    ELSE IF Len(protocol.channel_queue[key]) > 1
         THEN queue_waiting([ protocol EXCEPT !.channel_queue[key] = Tail(@) ],
                            t, protocol.tasks[t].data_or_stop)
         ELSE IF protocol.event_stop
              THEN greenlet_finished(
                       [ protocol EXCEPT !.channel_queue[key] = Tail(@) ], t)
              ELSE queue_waiting(
                       [ protocol EXCEPT !.channel_queue[key] = Tail(@) ],
                       t, FALSE)

\* wait_recovery up to its wait for the first of event_stop and
\* event_healthy.
wait_recovery(protocol, t) ==
    [ protocol EXCEPT !.tasks[t] =
        [ @ EXCEPT !.pc = "wait_recovery", !.event_quit = FALSE,
                   !.event_recovery =
                       \/ protocol.event_stop
                       \/ is_healthy(protocol, t[2]) ] ]

\* retry of a queue task up to its first wait: the data is sent once and
\* event_quit is the first of the future and stop_or_unhealthy.
queue_retry_sent(sent, t, echohash) ==
    IF sent.raised # NoError
    THEN greenlet_killed(sent.protocol, t)
    ELSE retry_waiting(sent.protocol, t, "retry_wait",
                       \/ ready(sent.protocol, echohash)
                       \/ sent.protocol.tasks[t].stop_or_unhealthy,
                       next_timeout(sent.protocol.tasks[t].timeout_backoff))

queue_retry(protocol, t) ==
    queue_retry_sent(
        send_raw_with_result(protocol, protocol.tasks[t].data,
                             protocol.tasks[t].receiver_address),
        t,
        echohash_of(protocol.tasks[t].data, protocol.tasks[t].receiver_address))

\* One turn of the loop of retry_with_recovery, the data being not
\* acknowledged: the task leaves at stop, pauses while the node is unhealthy
\* and sends otherwise.
retry_with_recovery(protocol, t) ==
    IF protocol.event_stop
    THEN single_queue_send_after(
             protocol, t, << t[2], t[3] >>, FALSE)
    ELSE IF is_unhealthy(protocol, t[2])
         THEN wait_recovery(protocol, t)
         ELSE queue_retry(protocol, t)

\* single_queue_send woken at data_or_stop.wait(): it returns at stop, and
\* otherwise peeks the head, makes the backoff iterator and enters
\* retry_with_recovery, which builds stop_or_unhealthy.
single_queue_send(protocol, t) ==
    IF protocol.event_stop
    THEN greenlet_finished(protocol, t)
    ELSE IF protocol.channel_queue[<< t[2], t[3] >>] = << >>
         THEN greenlet_killed(protocol, t)
         ELSE retry_with_recovery(
                  [ protocol EXCEPT !.tasks[t] =
                      [ @ EXCEPT
                          !.data = Head(protocol.channel_queue[<< t[2], t[3] >>]),
                          !.timeout_backoff =
                              timeout_exponential_backoff(
                                  protocol.retries_before_backoff,
                                  protocol.retry_interval,
                                  protocol.retry_interval * 10),
                          !.stop_or_unhealthy =
                              is_unhealthy(protocol, t[2]) ] ],
                  t)

\* retry of a queue task leaves its wait with event_quit set and returns
\* async_result.ready(); retry_with_recovery returns at stop or when the
\* data is acknowledged and goes round its loop otherwise.
queue_retry_returned_as_acknowledged(protocol, t, acknowledged) ==
    single_queue_send_after(protocol, t, << t[2], t[3] >>, TRUE)

queue_retry_returned(protocol, t, acknowledged) ==
    IF protocol.event_stop \/ acknowledged
    THEN single_queue_send_after(protocol, t, << t[2], t[3] >>, acknowledged)
    ELSE retry_with_recovery(protocol, t)

queue_retry_quit(protocol, t) ==
    queue_retry_returned(
        protocol, t,
        ready(protocol, echohash_of(protocol.tasks[t].data, t[2])))

\* A wait of retry times out: the data is sent again and the next timeout
\* is taken.
retry_again_sent(sent, t) ==
    IF sent.raised # NoError
    THEN greenlet_killed(sent.protocol, t)
    ELSE retry_waiting(sent.protocol, t, sent.protocol.tasks[t].pc, FALSE,
                       next_timeout(sent.protocol.tasks[t].timeout_backoff))


\* A timeout of a wait of retry that marks the node unhealthy.
retry_timeout_marking_unhealthy(protocol, t) ==
    retry_again_sent(
        send_raw_with_result(event_unhealthy_set(protocol, t[2]),
                             protocol.tasks[t].data, t[2]), t)

\* A wait of retry times out.
retry_timeout(protocol, t) ==
    retry_again_sent(
        send_raw_with_result(protocol, protocol.tasks[t].data, t[2]), t)

\* wait_recovery is woken: at stop it returns, otherwise it sleeps a random
\* time first.
wait_recovery_woken(protocol, t) ==
    IF protocol.event_stop
    THEN single_queue_send_after(protocol, t, << t[2], t[3] >>, FALSE)
    ELSE [ protocol EXCEPT !.tasks[t] =
             [ @ EXCEPT !.pc = "recovery_sleep", !.event_recovery = FALSE ] ]

\* A retry_with_recovery that makes a new backoff iterator when it resumes
\* after wait_recovery.
wait_recovery_returned_restarting(protocol, t) ==
    IF protocol.event_stop
    THEN single_queue_send_after(protocol, t, << t[2], t[3] >>, FALSE)
    ELSE queue_retry(
             [ protocol EXCEPT
                 !.tasks[t].stop_or_unhealthy = FALSE,
                 !.tasks[t].timeout_backoff =
                     timeout_exponential_backoff(
                         protocol.retries_before_backoff,
                         protocol.retry_interval,
                         protocol.retry_interval * 10) ], t)

\* The sleep of wait_recovery is over: retry_with_recovery clears
\* stop_or_unhealthy, returns at stop and calls retry otherwise.
wait_recovery_returned(protocol, t) ==
    IF protocol.event_stop
    THEN single_queue_send_after(protocol, t, << t[2], t[3] >>, FALSE)
    ELSE queue_retry(
             [ protocol EXCEPT !.tasks[t].stop_or_unhealthy = FALSE ], t)

\* get_ping: the bytes of a signed Ping.
get_ping(protocol, nonce) == encode(sign(Ping(nonce), protocol.raiden.address))

\* healthcheck with an acknowledged Ping: the node is reachable, and the
\* task sleeps until the next Ping.
healthcheck_acknowledged(protocol, t) ==
    [ event_healthy_set(protocol, t[2]) EXCEPT
        !.nodeaddresses_networkstatuses[t[2]] = NODE_NETWORK_REACHABLE,
        !.tasks[t] = [ @ EXCEPT !.pc = "sleep", !.event_quit = FALSE,
                                !.timeout_backoff = no_timeouts ] ]

\* healthcheck with a Ping that was not acknowledged: the node is
\* unreachable, and the Ping is sent again every nat_invitation_timeout.
healthcheck_invitation_sent(sent, t) ==
    IF sent.raised # NoError
    THEN greenlet_killed(sent.protocol, t)
    ELSE retry_waiting(sent.protocol, t, "invitation_wait", FALSE,
                       next_timeout(timeout_repeat(
                           sent.protocol.nat_invitation_timeout)))

healthcheck_unreachable(protocol, t) ==
    healthcheck_invitation_sent(
        send_raw_with_result(
            [ event_unhealthy_set(protocol, t[2]) EXCEPT
                !.nodeaddresses_networkstatuses[t[2]] =
                    NODE_NETWORK_UNREACHABLE ],
            protocol.tasks[t].data, t[2]),
        t)

\* healthcheck after the retry of the keepalive Pings has returned.
healthcheck_after_retry(protocol, t, acknowledged) ==
    IF protocol.event_stop
    THEN greenlet_finished(protocol, t)
    ELSE IF acknowledged
         THEN healthcheck_acknowledged(protocol, t)
         ELSE healthcheck_unreachable(protocol, t)

\* retry of the keepalive Pings after a send: it waits for the next timeout
\* of the list and returns async_result.ready() when the list is used up.
healthcheck_ping_step(protocol, t, event_quit, step) ==
    IF step.exhausted
    THEN healthcheck_after_retry(
             protocol, t, ready(protocol, echohash_of(protocol.tasks[t].data, t[2])))
    ELSE retry_waiting(protocol, t, "ping_wait", event_quit, step)

healthcheck_ping_sent(sent, t, event_quit) ==
    IF sent.raised # NoError
    THEN greenlet_killed(sent.protocol, t)
    ELSE healthcheck_ping_step(
             sent.protocol, t, event_quit,
             next_timeout(sent.protocol.tasks[t].timeout_backoff))

\* One turn of the loop of healthcheck: the next Ping is made and sent.
healthcheck_ping_with(protocol, t, data) ==
    healthcheck_ping_sent(
        send_raw_with_result(
            [ protocol EXCEPT
                !.nodeaddresses_to_nonces[t[2]] = @ + 1,
                !.tasks[t] = [ @ EXCEPT
                    !.data = data,
                    !.timeout_backoff =
                        timeout_list(protocol.nat_keepalive_timeout,
                                     protocol.nat_keepalive_retries) ] ],
            data, t[2]),
        t, FALSE)

healthcheck_ping(protocol, t) ==
    healthcheck_ping_with(
        protocol, t, get_ping(protocol, protocol.nodeaddresses_to_nonces[t[2]] + 1))

\* healthcheck from its start: the state of the node is unknown and the
\* events let the queue tasks work; the first Ping is sent without a wait.
healthcheck(protocol, t) ==
    IF protocol.event_stop
    THEN greenlet_finished(
             [ event_healthy_set(protocol, t[2]) EXCEPT
                 !.nodeaddresses_networkstatuses[t[2]] = NODE_NETWORK_UNKNOWN ],
             t)
    ELSE healthcheck_ping(
             [ event_healthy_set(protocol, t[2]) EXCEPT
                 !.nodeaddresses_networkstatuses[t[2]] = NODE_NETWORK_UNKNOWN ],
             t)

\* The retry of the keepalive Pings leaves its wait with event_quit set.
healthcheck_ping_quit(protocol, t) ==
    healthcheck_after_retry(
        protocol, t, ready(protocol, echohash_of(protocol.tasks[t].data, t[2])))

\* A wait of the retry of the keepalive Pings times out.
healthcheck_ping_timeout(protocol, t) ==
    healthcheck_ping_sent(
        send_raw_with_result(protocol, protocol.tasks[t].data, t[2]), t, FALSE)

\* The retry of the invitation Pings leaves its wait with event_quit set.
healthcheck_invitation_quit(protocol, t) ==
    IF ready(protocol, echohash_of(protocol.tasks[t].data, t[2]))
    THEN healthcheck_acknowledged(protocol, t)
    ELSE [ protocol EXCEPT !.tasks[t] =
             [ @ EXCEPT !.pc = "sleep", !.event_quit = FALSE,
                        !.timeout_backoff = no_timeouts ] ]

\* event_stop.wait(sleep) of healthcheck returns.
healthcheck_sleep_over(protocol, t) ==
    IF protocol.event_stop
    THEN greenlet_finished(protocol, t)
    ELSE healthcheck_ping(protocol, t)

\* gevent.spawn: a greenlet is added to the list of the object.
spawn(protocol, t, pc) ==
    [ protocol EXCEPT
        !.greenlets = Append(@, t),
        !.tasks = Put(@, t, Greenlet(t[1], t[2], t[3], pc,
                                     protocol.event_stop /\ pc = "wait_data")) ]

\* start_health_check: the events of an address and its healthcheck task.
start_health_check(protocol, receiver_address) ==
    IF receiver_address \in DOMAIN protocol.addresses_events
    THEN protocol
    ELSE spawn([ protocol EXCEPT
                   !.nodeaddresses_to_nonces =
                       IF receiver_address \in DOMAIN @ THEN @
                       ELSE Put(@, receiver_address, 0),
                   !.addresses_events =
                       Put(@, receiver_address,
                           [ event_healthy |-> FALSE,
                             event_unhealthy |-> FALSE ]) ],
               HealthTask(receiver_address), "spawned")

\* get_channel_queue: the queue of (receiver_address, token_address), made
\* with its single_queue_send task at the first use.
get_channel_queue(protocol, receiver_address, token_address) ==
    IF << receiver_address, token_address >> \in DOMAIN protocol.channel_queue
    THEN protocol
    ELSE spawn([ start_health_check(protocol, receiver_address) EXCEPT
                   !.channel_queue =
                       Put(@, << receiver_address, token_address >>, << >>) ],
               QueueTask(receiver_address, token_address), "wait_data")

\* queue.put: the element is appended and the queue's event is set, which
\* sets the data_or_stop of its task.
queue_put(protocol, receiver_address, token_address, messagedata) ==
    [ protocol EXCEPT
        !.channel_queue[<< receiver_address, token_address >>] =
            Append(@, messagedata),
        !.tasks[QueueTask(receiver_address, token_address)] =
            IF @.pc \in { "finished", "killed" } THEN @
            ELSE [ @ EXCEPT !.data_or_stop = TRUE ] ]

\* send_async of a message whose echohash is not known: it gets a future
\* and is put into the queue of its channel.
send_async_new(protocol, receiver_address, message) ==
    Returned(
        queue_put(
            get_channel_queue(
                new_async_result(protocol,
                                 echohash_of(encode(message), receiver_address),
                                 receiver_address),
                receiver_address, token_of(message)),
            receiver_address, token_of(message), encode(message)),
        Len(protocol.async_results) + 1, NoError)

\* send_async without the test for a known echohash.
send_async_without_lookup(protocol, receiver_address, message) ==
    IF message.cmdid \in { "Ack", "Ping" }
         \/ len(encode(message)) > UDP_MAX_MESSAGE_SIZE
    THEN Returned(protocol, 0, "ValueError")
    ELSE send_async_new(protocol, receiver_address, message)

\* send_async: an Ack, a Ping and an oversized message are refused; a
\* message whose echohash is known returns the future of the first send; a
\* new one gets a future and is put into the queue of its channel.
send_async(protocol, receiver_address, message) ==
    IF message.cmdid \in { "Ack", "Ping" }
         \/ len(encode(message)) > UDP_MAX_MESSAGE_SIZE
    THEN Returned(protocol, 0, "ValueError")
    ELSE IF echohash_of(encode(message), receiver_address)
                \in DOMAIN protocol.senthashes_to_states
         THEN Returned(
                  protocol,
                  protocol.senthashes_to_states[
                      echohash_of(encode(message), receiver_address)].async_result,
                  NoError)
         ELSE send_async_new(protocol, receiver_address, message)

\* _maybe_send_ack: the Ack is sent at once if the transport's server is
\* started.
maybe_send_ack_raw(protocol, host_port, messagedata) ==
    IF protocol.transport.started
    THEN transport_send(protocol, host_port, messagedata)
    ELSE protocol

\* maybe_send_ack: the endpoint is looked up, which may raise, the Ack is
\* kept with its endpoint and sent.
maybe_send_ack(protocol, receiver_address, ack_message) ==
    IF get_host_port(protocol, receiver_address) = None
    THEN Returned(protocol, 0, "UnknownAddress")
    ELSE Returned(
             maybe_send_ack_raw(
                 [ get_host_port_cached(protocol, receiver_address) EXCEPT
                     !.receivedhashes_to_acks =
                         Put(@, ack_message.echo,
                             << get_host_port(protocol, receiver_address),
                                encode(ack_message) >>) ],
                 get_host_port(protocol, receiver_address),
                 encode(ack_message)),
             0, NoError)

\* receive of bytes that were handled before: the Ack is sent again, to the
\* endpoint get_host_port returns now; the lookup may raise.
receive_repeat(protocol, message, echohash) ==
    IF get_host_port(protocol, message.sender) = None
    THEN Returned(protocol, 0, "UnknownAddress")
    ELSE Returned(
             maybe_send_ack_raw(
                 [ get_host_port_cached(protocol, message.sender) EXCEPT
                     !.receivedhashes_to_acks[echohash] =
                         << get_host_port(protocol, message.sender), @[2] >> ],
                 get_host_port(protocol, message.sender),
                 protocol.receivedhashes_to_acks[echohash][2]),
             0, NoError)

\* receive of an Ack that sets every future there is to True.
receive_ack_of_every_future(protocol, message) ==
    IF message.echo \in DOMAIN protocol.senthashes_to_states
    THEN Returned([ async_result_set(protocol, message.echo, "true") EXCEPT
                      !.async_results = [ i \in DOMAIN @ |-> "true" ] ],
                  0, NoError)
    ELSE Returned(protocol, 0, NoError)

\* receive of an Ack: the future registered under its echo is set to True.
receive_ack(protocol, message) ==
    IF message.echo \in DOMAIN protocol.senthashes_to_states
    THEN Returned(async_result_set(protocol, message.echo, "true"), 0, NoError)
    ELSE Returned(protocol, 0, NoError)

\* The times the host's on_message was called for the bytes of an echohash,
\* and one more call.
on_message_count(protocol, echohash) ==
    IF echohash \in DOMAIN protocol.raiden.on_message_calls
    THEN protocol.raiden.on_message_calls[echohash]
    ELSE 0
on_message_called(protocol, echohash) ==
    [ protocol EXCEPT !.raiden.on_message_calls =
        Put(@, echohash, on_message_count(protocol, echohash) + 1) ]

\* receive of a signed message that sends the Ack whatever on_message does.
receive_message_acknowledging(protocol, message, echohash, outcome) ==
    Returned(
        maybe_send_ack(on_message_called(protocol, echohash),
                       message.sender,
                       Ack(protocol.raiden.address, echohash)).protocol,
        0, NoError)

\* receive of a signed message: on_message is called; after it has returned
\* the Ack is made and sent, and an exception of maybe_send_ack is
\* swallowed; the business exceptions of on_message are swallowed and other
\* ones are raised to the caller.
receive_message(protocol, message, echohash, outcome) ==
    IF outcome = NoError
    THEN Returned(
             maybe_send_ack(on_message_called(protocol, echohash),
                            message.sender,
                            Ack(protocol.raiden.address, echohash)).protocol,
             0, NoError)
    ELSE Returned(on_message_called(protocol, echohash), 0,
                  IF outcome \in SwallowedExceptions THEN NoError ELSE outcome)

\* receive: a datagram of the transport; outcome is what on_message does
\* with the message if it is called.
receive(protocol, data, outcome) ==
    IF len(data) > UDP_MAX_MESSAGE_SIZE
    THEN Returned(protocol, 0, NoError)
    ELSE IF echohash_of(data, protocol.raiden.address)
                \in DOMAIN protocol.receivedhashes_to_acks
         THEN receive_repeat(protocol, decode(data),
                             echohash_of(data, protocol.raiden.address))
         ELSE IF decode(data).cmdid = "Ack"
              THEN receive_ack(protocol, decode(data))
              ELSE IF decode(data).cmdid \in { "Transfer", "Ping" }
                   THEN receive_message(
                            protocol, decode(data),
                            echohash_of(data, protocol.raiden.address), outcome)
                   ELSE Returned(protocol, 0, NoError)

\* stop_and_wait that sets the futures to False before it waits.
stop_and_wait_begin_resolving(protocol) ==
    [ event_stop_set([ protocol EXCEPT !.transport.accepting = FALSE ]) EXCEPT
        !.async_results = [ i \in DOMAIN @ |-> "false" ] ]

\* stop_and_wait up to gevent.wait: the transport accepts no datagram any
\* more and the stop event is set.
stop_and_wait_begin(protocol) ==
    event_stop_set([ protocol EXCEPT !.transport.accepting = FALSE ])

\* stop_and_wait after gevent.wait has returned: the transport is stopped
\* and every future is set to False.
stop_and_wait_end(protocol) ==
    [ protocol EXCEPT
        !.transport.started = FALSE,
        !.transport.accepting = FALSE,
        !.async_results = [ i \in DOMAIN @ |-> "false" ] ]

\* ------------------------------------------------- the run of the transport

\* The bounds of a run: the Pings a healthcheck makes and the times the
\* host is handed the same bytes.
MaxPingNonce == 2
MaxOnMessageCalls == 2

\* The messages of the host, by receiver: two of the token T1 and one of the
\* token T2 for B, and one of T1 for C.
M1 == SignedMessage(OUR_ADDRESS, "T1", "m1", 100)
M2 == SignedMessage(OUR_ADDRESS, "T1", "m2", 100)
M3 == SignedMessage(OUR_ADDRESS, "T2", "m3", 100)
M4 == SignedMessage(OUR_ADDRESS, "T1", "m4", 100)
Oversized == SignedMessage(OUR_ADDRESS, "T1", "m5", 1300)

\* The datagrams of the peer B: an application message, one that is too
\* large and bytes that are no message; and the Acks, of the echohash of
\* every message and Ping of the run and of an echohash nobody has sent.
Inbound == SignedMessage("B", "T1", "b1", 100)
InboundOversized == SignedMessage("B", "T1", "b2", 1300)
Garbage == << "garbage" >>
UnknownEcho == echohash_of(Garbage, "B")
Echoes(sendable) ==
    { echohash_of(encode(s[2]), s[1]) : s \in sendable }
    \cup { echohash_of(encode(sign(Ping(n), OUR_ADDRESS)), "B") :
             n \in 1..MaxPingNonce }
    \cup { UnknownEcho }
Datagrams(sendable) ==
    { encode(Inbound), encode(InboundOversized), Garbage }
    \cup { encode(Ack("B", echo)) : echo \in Echoes(sendable) }

OnMessageOutcomes == { NoError } \cup SwallowedExceptions

\* The record of a run: what the host may send, the endpoints the discovery
\* will give for B, the elements ever put into each queue, the bytes ever
\* transmitted, the echohashes an Ack has resolved and the echohashes
\* on_message has returned for.
History(sendable, changing) ==
    [ sendable |-> sendable, changing |-> changing, enqueued |-> << >>,
      transmitted |-> { }, acked |-> { }, handled |-> { } ]

Cleared == [ raiden_protocol EXCEPT !.transport.sent = << >> ]

Enqueued(before, after) ==
    [ key \in DOMAIN after.channel_queue |->
        IF key \notin DOMAIN before.channel_queue
        THEN after.channel_queue[key]
        ELSE IF Len(after.channel_queue[key]) > Len(before.channel_queue[key])
             THEN Append(history.enqueued[key],
                         after.channel_queue[key][Len(after.channel_queue[key])])
             ELSE history.enqueued[key] ]

\* The bytes the host has put into a queue.
Queued(after) ==
    { encode(s[2]) : s \in history.sendable }

Observe(after, handled) ==
    [ history EXCEPT
        !.enqueued = Enqueued(raiden_protocol, after),
        !.transmitted =
            @ \cup { data \in Queued(after) :
                       \E i \in DOMAIN after.transport.sent :
                           after.transport.sent[i][2] = data },
        !.acked =
            @ \cup { h \in DOMAIN raiden_protocol.senthashes_to_states :
                       /\ h[2] \in Queued(after)
                       /\ async_result_of(raiden_protocol, h) # "true"
                       /\ async_result_of(after, h) = "true" },
        !.handled = @ \cup handled ]

mediator_vars == << mediator_state, channels, block_number, events, raised, created, scenario >>
transport_vars == << raiden_protocol, stop_and_wait_call, history >>
all_vars == << mediator_vars, transport_vars >>

\* A step of the transport: of a call of its interface that returns, or of
\* a greenlet that runs until it blocks.
Call(after, handled) ==
    /\ raiden_protocol' = after
    /\ history' = Observe(after, handled)
    /\ UNCHANGED mediator_vars

Run(after) ==
    /\ Call(after, { })
    /\ UNCHANGED stop_and_wait_call

\* The host has called start(), which it does before it sends or stops.
Started ==
    raiden_protocol.transport.started \/ stop_and_wait_call.pc # "idle"

\* start(): the transport is started.
Start ==
    /\ ~raiden_protocol.transport.started
    /\ stop_and_wait_call.pc = "idle"
    /\ Run([ Cleared EXCEPT !.transport.started = TRUE,
                            !.transport.accepting = TRUE ])

\* The host sends a message.
SendAsync ==
    /\ Started
    /\ \E s \in history.sendable :
          Run(send_async(Cleared, s[1], s[2]).protocol)

\* The host sends what send_async refuses: an Ack and a message that is too
\* large.
SendAsyncRefused ==
    /\ Started
    /\ \E message \in { Ack(OUR_ADDRESS, UnknownEcho), Oversized } :
          Run(send_async(Cleared, "B", message).protocol)

\* The transport hands a datagram to receive.
Receive ==
    /\ raiden_protocol.transport.accepting
    /\ \E data \in Datagrams(history.sendable) \ { encode(Inbound) } :
          Run(receive(Cleared, data, NoError).protocol)

\* The transport hands the application message of the peer to receive; if
\* on_message is called, it returns or raises.
ReceiveMessage ==
    /\ raiden_protocol.transport.accepting
    /\ on_message_count(raiden_protocol, echohash_of(encode(Inbound), OUR_ADDRESS))
           < MaxOnMessageCalls
    /\ \E outcome \in OnMessageOutcomes :
          /\ Call(receive(Cleared, encode(Inbound), outcome).protocol,
                  IF /\ outcome = NoError
                     /\ echohash_of(encode(Inbound), OUR_ADDRESS)
                            \notin DOMAIN raiden_protocol.receivedhashes_to_acks
                  THEN { echohash_of(encode(Inbound), OUR_ADDRESS) } ELSE { })
    /\ UNCHANGED stop_and_wait_call

\* The discovery gives another endpoint for an address, or none.
DiscoveryChanged ==
    /\ history.changing # << >>
    /\ history' = [ history EXCEPT !.changing = Tail(@) ]
    /\ raiden_protocol' = [ Cleared EXCEPT !.discovery["B"] = Head(history.changing) ]
    /\ UNCHANGED << mediator_vars, stop_and_wait_call >>

\* The entries of the cache of get_host_port expire.
CacheExpired ==
    /\ raiden_protocol.get_host_port_cache # << >>
    /\ Run([ Cleared EXCEPT !.get_host_port_cache = << >> ])

\* The tasks of a kind that are blocked at a position.
Blocked(kind, pc) ==
    { t \in DOMAIN raiden_protocol.tasks :
        raiden_protocol.tasks[t].kind = kind /\ raiden_protocol.tasks[t].pc = pc }

\* A healthcheck may make its next Ping.
MayPing(t) ==
    raiden_protocol.event_stop \/ raiden_protocol.nodeaddresses_to_nonces[t[2]] < MaxPingNonce

QueueData ==
    \E t \in Blocked("single_queue_send", "wait_data") :
        /\ raiden_protocol.tasks[t].data_or_stop
        /\ Run(single_queue_send(Cleared, t))

QueueRetryQuit ==
    \E t \in Blocked("single_queue_send", "retry_wait") :
        /\ raiden_protocol.tasks[t].event_quit
        /\ Run(queue_retry_quit(Cleared, t))

QueueRetryTimeout ==
    \E t \in Blocked("single_queue_send", "retry_wait") :
        /\ ~raiden_protocol.tasks[t].event_quit
        /\ Run(retry_timeout(Cleared, t))

QueueRecovery ==
    \E t \in Blocked("single_queue_send", "wait_recovery") :
        /\ raiden_protocol.tasks[t].event_recovery
        /\ Run(wait_recovery_woken(Cleared, t))

QueueRecoverySleepOver ==
    \E t \in Blocked("single_queue_send", "recovery_sleep") :
        Run(wait_recovery_returned(Cleared, t))

HealthcheckStart ==
    \E t \in Blocked("healthcheck", "spawned") :
        /\ MayPing(t)
        /\ Run(healthcheck(Cleared, t))

HealthcheckPingQuit ==
    \E t \in Blocked("healthcheck", "ping_wait") :
        /\ raiden_protocol.tasks[t].event_quit
        /\ Run(healthcheck_ping_quit(Cleared, t))

HealthcheckPingTimeout ==
    \E t \in Blocked("healthcheck", "ping_wait") :
        /\ ~raiden_protocol.tasks[t].event_quit
        /\ Run(healthcheck_ping_timeout(Cleared, t))

HealthcheckInvitationQuit ==
    \E t \in Blocked("healthcheck", "invitation_wait") :
        /\ raiden_protocol.tasks[t].event_quit
        /\ Run(healthcheck_invitation_quit(Cleared, t))

HealthcheckInvitationTimeout ==
    \E t \in Blocked("healthcheck", "invitation_wait") :
        /\ ~raiden_protocol.tasks[t].event_quit
        /\ Run(retry_timeout(Cleared, t))

HealthcheckSleepOver ==
    \E t \in Blocked("healthcheck", "sleep") :
        /\ MayPing(t)
        /\ Run(healthcheck_sleep_over(Cleared, t))

\* stop_and_wait is called: it runs up to gevent.wait(self.greenlets).
StopAndWait ==
    /\ stop_and_wait_call.pc = "idle"
    /\ raiden_protocol.transport.started
    /\ stop_and_wait_call' = [ pc |-> "gevent.wait", greenlets |-> raiden_protocol.greenlets ]
    /\ Call(stop_and_wait_begin(Cleared), { })

\* The greenlets stop_and_wait waits for are over: it runs to its end.
StopAndWaitReturns ==
    /\ stop_and_wait_call.pc = "gevent.wait"
    /\ \A i \in DOMAIN stop_and_wait_call.greenlets :
          raiden_protocol.tasks[stop_and_wait_call.greenlets[i]].pc
              \in { "finished", "killed" }
    /\ stop_and_wait_call' = [ pc |-> "returned", greenlets |-> << >> ]
    /\ Call(stop_and_wait_end(Cleared), { })

\* The sending side: the host sends and stops, the peers acknowledge, and
\* the greenlets run.
NextSending ==
    \/ Start
    \/ SendAsync
    \/ SendAsyncRefused
    \/ Receive
    \/ QueueData
    \/ QueueRetryQuit
    \/ QueueRetryTimeout
    \/ QueueRecovery
    \/ QueueRecoverySleepOver
    \/ HealthcheckStart
    \/ HealthcheckPingQuit
    \/ HealthcheckPingTimeout
    \/ HealthcheckInvitationQuit
    \/ HealthcheckInvitationTimeout
    \/ HealthcheckSleepOver
    \/ StopAndWait
    \/ StopAndWaitReturns

\* The whole transport: the peer B sends an application message as well, and
\* the discovery changes.
NextTransport ==
    \/ NextSending
    \/ ReceiveMessage
    \/ DiscoveryChanged
    \/ CacheExpired

\* The transport after construction, with a mediator that has no task.
InitTransportWith(sendable, changing, retry_interval, retries_before_backoff, nat_keepalive_retries, nat_keepalive_timeout, nat_invitation_timeout) ==
    /\ mediator_state = NullState
    /\ channels = << >>
    /\ block_number = 0
    /\ events = << >>
    /\ raised = NoError
    /\ created = FALSE
    /\ scenario = [ expiration |-> 0, horizon |-> 0 ]
    /\ raiden_protocol = RaidenProtocol([ a \in Destinations |-> IF a = "B" THEN "hostB:1" ELSE "hostC:1" ],
                                 retry_interval, retries_before_backoff,
                                 nat_keepalive_retries, nat_keepalive_timeout,
                                 nat_invitation_timeout)
    /\ stop_and_wait_call = [ pc |-> "idle", greenlets |-> << >> ]
    /\ history = History(sendable, changing)

\* One message for B, and a discovery that loses the endpoint of B and
\* finds another one.
InitTransport ==
    InitTransportWith({ << "B", M1 >> }, << None, "hostB:2" >>, 1, 1, 1, 3, 5)

SpecTransport == InitTransport /\ [][NextTransport]_all_vars

\* The sending side with two messages in the queue of (B, T1).
InitSending ==
    InitTransportWith({ << "B", M1 >>, << "B", M2 >> }, << >>, 1, 1, 1, 3, 5)

SpecSending == InitSending /\ [][NextSending]_all_vars

\* ------------------------------------------- properties of the transport

\* The queue of (B, T1) and its task, the healthcheck of B, and the
\* echohashes of the messages of the run.
QueueOfB == << "B", "T1" >>
QueueTaskOfB == QueueTask("B", "T1")
HealthTaskOfB == HealthTask("B")
EchoOf(message, receiver_address) == echohash_of(encode(message), receiver_address)
InboundEcho == echohash_of(encode(Inbound), OUR_ADDRESS)

\* The datagrams the last step has transmitted.
Sent == raiden_protocol.transport.sent

\* This step removes an element from a queue only if an Ack has resolved the
\* future of its head before.
PopsOnlyAcknowledged ==
    \A key \in DOMAIN raiden_protocol.channel_queue :
        Len(raiden_protocol'.channel_queue[key])
            < Len(raiden_protocol.channel_queue[key])
          => /\ raiden_protocol'.channel_queue[key]
                    = Tail(raiden_protocol.channel_queue[key])
             /\ echohash_of(Head(raiden_protocol.channel_queue[key]), key[1])
                    \in history.acked

\* After this step, an element of a queue has been transmitted only if every
\* element put into the queue before it was acknowledged before the step.
LaterOnlyAfterEarlierAcknowledged ==
    \A key \in DOMAIN history'.enqueued :
        \A j, k \in DOMAIN history'.enqueued[key] :
            ( /\ j < k
              /\ history'.enqueued[key][k] \in history'.transmitted )
              => echohash_of(history'.enqueued[key][j], key[1]) \in history.acked

\* This step transmits no element of a queue after an element put into the
\* queue later has been transmitted.
WireOrderIsEnqueueOrder ==
    \A i \in DOMAIN raiden_protocol'.transport.sent :
        \A key \in DOMAIN history.enqueued :
            \A j, k \in DOMAIN history.enqueued[key] :
                ( /\ j < k
                  /\ history.enqueued[key][j] = raiden_protocol'.transport.sent[i][2] )
                  => history.enqueued[key][k] \notin history.transmitted

\* C13: per (destination, token) queue, the head is removed only after its
\* acknowledgement was received, and the bytes of a later element are never
\* transmitted before the acknowledgement of every earlier element, so that
\* the order on the wire is the order of the queue, for every interleaving of
\* send_async, receive, the changes of the health and stop.
C13_QueueOrder ==
    [][ /\ PopsOnlyAcknowledged
        /\ LaterOnlyAfterEarlierAcknowledged
        /\ WireOrderIsEnqueueOrder ]_all_vars

\* Two messages were put into the queue of (B, T1), both were transmitted
\* and both were removed.
C13_Witness ==
    /\ QueueOfB \in DOMAIN history.enqueued
    /\ Len(history.enqueued[QueueOfB]) = 2
    /\ \A k \in 1..2 : history.enqueued[QueueOfB][k] \in history.transmitted
    /\ raiden_protocol.channel_queue[QueueOfB] = << >>

\* The second receipt of the bytes of the peer's message: on_message is not
\* called, and the Ack that was made at the first receipt is sent to the
\* endpoint get_host_port gives for the sender now.
SecondReceipt(second) ==
    /\ second.raised = NoError
    /\ on_message_count(second.protocol, InboundEcho)
           = on_message_count(raiden_protocol, InboundEcho)
    /\ second.protocol.transport.sent
           = << << get_host_port(raiden_protocol, "B"),
                   encode(Ack(OUR_ADDRESS, InboundEcho)) >> >>

\* C14: when the same bytes are received twice and the first receipt was
\* handled by on_message without exception, the second receipt does not call
\* on_message and sends the cached Ack again, to the endpoint of the sender
\* discovered now; on_message is called exactly once for the bytes.
C14_DuplicateIsNotHandledAgain ==
    (raiden_protocol.transport.accepting /\ InboundEcho \in history.handled)
      => /\ on_message_count(raiden_protocol, InboundEcho) = 1
         /\ SecondReceipt(receive(Cleared, encode(Inbound), NoError))

\* C14 for bytes whose Ack is in receivedhashes_to_acks while the endpoint of
\* the sender can be looked up.
C14_CachedDuplicateIsNotHandledAgain ==
    ( /\ raiden_protocol.transport.accepting
      /\ InboundEcho \in DOMAIN raiden_protocol.receivedhashes_to_acks
      /\ get_host_port(raiden_protocol, "B") # None )
      => SecondReceipt(receive(Cleared, encode(Inbound), NoError))

\* The object after the receipt of the peer's Ack of an echohash.
AfterAck(protocol, echo) ==
    receive(protocol, encode(Ack("B", echo)), NoError).protocol

\* The Ack of an echohash sets the future registered under it to True and
\* changes no other future, queue, table or datagram; the Ack of an echohash
\* that is not registered changes nothing.
AckResolvesOnly(protocol, echo, after) ==
    IF echo \in DOMAIN protocol.senthashes_to_states
    THEN /\ after.async_results =
                [ protocol.async_results EXCEPT
                    ![protocol.senthashes_to_states[echo].async_result] = "true" ]
         /\ [ after EXCEPT !.async_results = protocol.async_results,
                           !.tasks = protocol.tasks ] = protocol
         /\ \A t \in DOMAIN protocol.tasks :
                [ after.tasks[t] EXCEPT !.event_quit = FALSE ]
                    = [ protocol.tasks[t] EXCEPT !.event_quit = FALSE ]
    ELSE after = protocol

\* Ping(1) and Ping(2) are sent to B and the Ack of Ping(2) arrives first.
PingsSent(protocol) ==
    send_raw_with_result(
        send_raw_with_result(protocol, get_ping(protocol, 1), "B").protocol,
        get_ping(protocol, 2), "B").protocol
SecondPingAcknowledged(sent, acked) ==
    /\ async_result_of(acked, echohash_of(get_ping(sent, 2), "B")) = "true"
    /\ async_result_of(acked, echohash_of(get_ping(sent, 1), "B"))
           = async_result_of(sent, echohash_of(get_ping(sent, 1), "B"))
    /\ echohash_of(get_ping(sent, 1), "B") \notin DOMAIN raiden_protocol.senthashes_to_states
         => async_result_of(acked, echohash_of(get_ping(sent, 1), "B")) = "pending"

\* C15: an inbound Ack sets to True exactly the future registered under its
\* echo and leaves every other future as it was, in whatever order the
\* messages were sent: after Ping(1) and Ping(2), the Ack of Ping(2) resolves
\* the future of Ping(2) and that of Ping(1) stays pending; an Ack of an
\* unknown echo changes no state.
C15_AckResolvesItsFuture ==
    /\ \A echo \in Echoes(history.sendable) :
           AckResolvesOnly(raiden_protocol, echo, AfterAck(raiden_protocol, echo))
    /\ AfterAck(raiden_protocol, UnknownEcho) = raiden_protocol
    /\ get_host_port(raiden_protocol, "B") # None
         => SecondPingAcknowledged(
                PingsSent(raiden_protocol),
                AfterAck(PingsSent(raiden_protocol),
                         echohash_of(get_ping(raiden_protocol, 2), "B")))

\* An Ack has resolved a future that was registered after one that is still
\* pending.
C15_Witness ==
    /\ history.acked # { }
    /\ \E i, j \in DOMAIN raiden_protocol.async_results :
           /\ i < j
           /\ raiden_protocol.async_results[i] = "pending"
           /\ raiden_protocol.async_results[j] = "true"


\* No element was put twice into a queue.
EnqueuedOnce ==
    \A key \in DOMAIN history.enqueued :
        \A i, j \in DOMAIN history.enqueued[key] :
            history.enqueued[key][i] = history.enqueued[key][j] => i = j

\* C16: for every echohash in senthashes_to_states, a later send_async of the
\* same bytes to the same destination returns the future of the first send,
\* puts nothing into a queue and adds no entry to the table; a message is
\* put into a queue at most once for its bytes and destination.
C16_SendAsyncOfKnownEchohash ==
    /\ \A s \in history.sendable :
           EchoOf(s[2], s[1]) \in DOMAIN raiden_protocol.senthashes_to_states
             => send_async(raiden_protocol, s[1], s[2])
                    = Returned(raiden_protocol,
                               raiden_protocol.senthashes_to_states[
                                   EchoOf(s[2], s[1])].async_result,
                               NoError)
    /\ EnqueuedOnce

\* The first message was acknowledged and has left its queue, and the second
\* one is in the queue: a send_async of either is one of a known echohash.
C16_Witness ==
    /\ EchoOf(M1, "B") \in DOMAIN raiden_protocol.senthashes_to_states
    /\ async_result_of(raiden_protocol, EchoOf(M1, "B")) = "true"
    /\ raiden_protocol.channel_queue[QueueOfB] = << encode(M2) >>
    /\ history.enqueued[QueueOfB] = << encode(M1), encode(M2) >>


\* The greenlets stop_and_wait waits for are over.
WaitedGreenletsOver ==
    \A i \in DOMAIN stop_and_wait_call.greenlets :
        raiden_protocol.tasks[stop_and_wait_call.greenlets[i]].pc
            \in { "finished", "killed" }

\* This step sets a future to False.
ResolvesWithFalse ==
    \E i \in DOMAIN raiden_protocol.async_results :
        /\ raiden_protocol.async_results[i] # "false"
        /\ raiden_protocol'.async_results[i] = "false"

\* C17: stop_and_wait stops accepting datagrams and sets the stop event,
\* waits for the queue and health tasks to finish, closes the transport and
\* then resolves the futures; after it has returned every future that was
\* pending is False and no task transmits a datagram any more.
C17_StopAndWaitOrder ==
    [][ /\ (~raiden_protocol.event_stop /\ raiden_protocol'.event_stop)
             => /\ stop_and_wait_call.pc = "idle"
                /\ stop_and_wait_call'.pc = "gevent.wait"
                /\ stop_and_wait_call'.greenlets = raiden_protocol.greenlets
                /\ ~raiden_protocol'.transport.accepting
                /\ raiden_protocol'.transport.started
                /\ raiden_protocol'.async_results = raiden_protocol.async_results
        /\ (raiden_protocol.transport.started /\ ~raiden_protocol'.transport.started)
             => /\ stop_and_wait_call.pc = "gevent.wait"
                /\ stop_and_wait_call'.pc = "returned"
                /\ raiden_protocol.event_stop
                /\ ~raiden_protocol.transport.accepting
                /\ WaitedGreenletsOver
        /\ ResolvesWithFalse
             => /\ stop_and_wait_call.pc = "gevent.wait"
                /\ stop_and_wait_call'.pc = "returned"
                /\ ~raiden_protocol'.transport.started
        /\ (stop_and_wait_call.pc = "gevent.wait" /\ stop_and_wait_call'.pc = "returned")
             => /\ \A i \in DOMAIN raiden_protocol.async_results :
                      raiden_protocol.async_results[i] = "pending"
                        => raiden_protocol'.async_results[i] = "false"
        /\ stop_and_wait_call'.pc = "returned"
             => /\ raiden_protocol'.transport.sent = << >>
                /\ ~raiden_protocol'.transport.accepting
                /\ ~raiden_protocol'.transport.started
                /\ raiden_protocol'.event_stop
      ]_all_vars

\* stop_and_wait has returned while a message was in its queue without
\* acknowledgement: its task is over and the futures are False.
C17_Witness ==
    /\ stop_and_wait_call.pc = "returned"
    /\ QueueOfB \in DOMAIN raiden_protocol.channel_queue
    /\ raiden_protocol.tasks[QueueTaskOfB].pc = "finished"
    /\ raiden_protocol.tasks[HealthTaskOfB].pc = "finished"
    /\ raiden_protocol.channel_queue[QueueOfB] = << encode(M1), encode(M2) >>
    /\ encode(M1) \in history.transmitted
    /\ raiden_protocol.async_results # << >>
    /\ \A i \in DOMAIN raiden_protocol.async_results :
           raiden_protocol.async_results[i] = "false"


\* The receipt of the peer's new application message that on_message
\* handles: the Ack is transmitted by this call, to the endpoint of the
\* sender, and no queue and no task is touched.
AckSentInsideReceive(received) ==
    /\ received.raised = NoError
    /\ received.protocol.transport.sent
           = << << get_host_port(raiden_protocol, "B"),
                   encode(Ack(OUR_ADDRESS, InboundEcho)) >> >>
    /\ received.protocol.channel_queue = raiden_protocol.channel_queue
    /\ received.protocol.tasks = raiden_protocol.tasks
    /\ received.protocol.senthashes_to_states = raiden_protocol.senthashes_to_states

\* C18: Acks never pass through a send queue.  When receive handles a new
\* application message successfully and the transport's server is started,
\* the Ack is transmitted inside that call of receive, whatever the state of
\* the send queues of the destination: waiting in a retry, or paused while
\* the node is unhealthy.
C18_AckSentInsideReceive ==
    ( /\ raiden_protocol.transport.accepting
      /\ raiden_protocol.transport.started
      /\ InboundEcho \notin DOMAIN raiden_protocol.receivedhashes_to_acks )
      => AckSentInsideReceive(receive(Cleared, encode(Inbound), NoError))

\* C18 for a sender whose endpoint can be looked up.
C18_AckSentWhenEndpointKnown ==
    ( /\ raiden_protocol.transport.accepting
      /\ raiden_protocol.transport.started
      /\ InboundEcho \notin DOMAIN raiden_protocol.receivedhashes_to_acks
      /\ get_host_port(raiden_protocol, "B") # None )
      => AckSentInsideReceive(receive(Cleared, encode(Inbound), NoError))

\* The Ack was transmitted while the send queue of the destination waits in
\* a retry or for the recovery of the node.
C18_AckSentWhileQueueWaits ==
    /\ Sent = << << get_host_port(raiden_protocol, "B"),
                    encode(Ack(OUR_ADDRESS, InboundEcho)) >> >>
    /\ QueueOfB \in DOMAIN raiden_protocol.channel_queue
    /\ raiden_protocol.tasks[QueueTaskOfB].pc \in { "retry_wait", "wait_recovery" }
    /\ raiden_protocol.channel_queue[QueueOfB] # << >>


\* The receipt of the peer's application message for which on_message
\* raises: nothing is raised to the caller, nothing is transmitted, the
\* cache of Acks is as before, and the only change is on_message's call.
SwallowedWithoutAck(received) ==
    /\ received.raised = NoError
    /\ received.protocol.transport.sent = << >>
    /\ received.protocol.receivedhashes_to_acks
           = raiden_protocol.receivedhashes_to_acks
    /\ received.protocol = on_message_called(Cleared, InboundEcho)

\* The same bytes received again are handed to on_message again.
HandedToOnMessageAgain(first, second) ==
    on_message_count(second.protocol, InboundEcho)
        = on_message_count(first.protocol, InboundEcho) + 1

\* C19: when on_message raises UnknownAddress, InvalidNonce,
\* TransferWhenClosed, TransferUnwanted, UnknownTokenAddress or
\* InvalidLocksRoot, receive swallows the exception, sends no Ack and adds
\* no entry to receivedhashes_to_acks, so a later duplicate of the same bytes
\* is handed to on_message again.
C19_SwallowedExceptionIsNotAcknowledged ==
    ( /\ raiden_protocol.transport.accepting
      /\ InboundEcho \notin DOMAIN raiden_protocol.receivedhashes_to_acks )
      => \A outcome \in SwallowedExceptions :
            /\ SwallowedWithoutAck(receive(Cleared, encode(Inbound), outcome))
            /\ \A later \in OnMessageOutcomes :
                  HandedToOnMessageAgain(
                      receive(Cleared, encode(Inbound), outcome),
                      receive(receive(Cleared, encode(Inbound), outcome).protocol,
                              encode(Inbound), later))

\* on_message has raised twice for the same bytes of a peer whose endpoint
\* is known: they were handed to it twice and no Ack was made.
C19_Witness ==
    /\ on_message_count(raiden_protocol, InboundEcho) = 2
    /\ InboundEcho \notin history.handled
    /\ InboundEcho \notin DOMAIN raiden_protocol.receivedhashes_to_acks
    /\ get_host_port(raiden_protocol, "B") # None
    /\ raiden_protocol.transport.started
    /\ \A i \in DOMAIN history.changing : history.changing[i] # None


\* The health supervisor of B: where its task is, its events, the state of
\* the node and the future of the Ping it is sending.
MaxKeepaliveRetries == 3
HealthPc(protocol) ==
    IF HealthTaskOfB \in DOMAIN protocol.tasks
    THEN protocol.tasks[HealthTaskOfB].pc
    ELSE "none"
UnhealthyOfB(protocol) ==
    IF "B" \in DOMAIN protocol.addresses_events
    THEN is_unhealthy(protocol, "B")
    ELSE FALSE
HealthyOfB(protocol) ==
    IF "B" \in DOMAIN protocol.addresses_events
    THEN is_healthy(protocol, "B")
    ELSE FALSE
NetworkStateOfB(protocol) == protocol.nodeaddresses_networkstatuses["B"]
PingFuture(protocol) ==
    async_result_of(protocol,
                    echohash_of(protocol.tasks[HealthTaskOfB].data, "B"))
MarkedUnreachable(protocol) ==
    /\ NetworkStateOfB(protocol) = NODE_NETWORK_UNREACHABLE
    /\ UnhealthyOfB(protocol)
    /\ ~HealthyOfB(protocol)
MarkedReachable(protocol) ==
    /\ NetworkStateOfB(protocol) = NODE_NETWORK_REACHABLE
    /\ ~UnhealthyOfB(protocol)
    /\ HealthyOfB(protocol)

\* The object after a number of waits of the keepalive retry have timed out.
RECURSIVE AfterTimeouts(_, _)
AfterTimeouts(protocol, n) ==
    IF n = 0
    THEN protocol
    ELSE AfterTimeouts(healthcheck_ping_timeout(protocol, HealthTaskOfB), n - 1)

\* A Ping that gets no Ack is sent again after each wait of
\* nat_keepalive_timeout, and the wait number nat_keepalive_retries marks
\* the node unreachable and starts the waits of nat_invitation_timeout.
StillWaiting(protocol, waits) ==
    /\ HealthPc(protocol) = "ping_wait"
    /\ ~UnhealthyOfB(protocol)
    /\ HealthyOfB(protocol)
    /\ protocol.tasks[HealthTaskOfB].timeout_backoff.timeout
           = protocol.nat_keepalive_timeout
    /\ Len(protocol.transport.sent) = waits + 1
GivenUp(protocol, waits) ==
    /\ HealthPc(protocol) = "invitation_wait"
    /\ MarkedUnreachable(protocol)
    /\ protocol.tasks[HealthTaskOfB].timeout_backoff.timeout
           = protocol.nat_invitation_timeout
    /\ Len(protocol.transport.sent) = waits + 2
    /\ PingFuture(protocol) = "pending"
KeepaliveWaits(pinged, retries) ==
    /\ \A waits \in 0..(retries - 1) :
           StillWaiting(AfterTimeouts(pinged, waits), waits)
    /\ GivenUp(AfterTimeouts(pinged, retries), retries)
UnreachableAfterKeepaliveRetries ==
    (HealthPc(raiden_protocol) = "sleep" /\ ~raiden_protocol.event_stop)
      => \A retries \in 1..MaxKeepaliveRetries :
            KeepaliveWaits(
                healthcheck_sleep_over(
                    [ Cleared EXCEPT !.nat_keepalive_retries = retries ],
                    HealthTaskOfB),
                retries)

\* While the node is unreachable each timeout of nat_invitation_timeout sends
\* the Ping again and changes nothing else.
InvitationRepeats(after) ==
    /\ after.transport.sent
           = << << get_host_port(raiden_protocol, "B"),
                   raiden_protocol.tasks[HealthTaskOfB].data >> >>
    /\ after.tasks = raiden_protocol.tasks
    /\ after.tasks[HealthTaskOfB].timeout_backoff
           = timeout_repeat(raiden_protocol.nat_invitation_timeout)
    /\ MarkedUnreachable(after)
PingRepeatedWhileUnreachable ==
    ( /\ HealthPc(raiden_protocol) = "invitation_wait"
      /\ ~raiden_protocol.tasks[HealthTaskOfB].event_quit )
      => InvitationRepeats(retry_timeout(Cleared, HealthTaskOfB))

\* C20: the health supervisor of a destination starts with the state
\* UNKNOWN, unhealthy clear and healthy set; when a Ping gets no Ack after
\* nat_keepalive_retries waits of nat_keepalive_timeout it marks the node
\* UNREACHABLE, clears healthy, sets unhealthy and sends the Ping again every
\* nat_invitation_timeout; when the Ping is acknowledged it clears
\* unhealthy, sets healthy and marks the node REACHABLE.  Unhealthy is set
\* by this failure of a Ping only, never by a missing Ack of a send queue.
C20_HealthSupervisor ==
    [][ /\ (HealthPc(raiden_protocol) = "spawned" /\ HealthPc(raiden_protocol') # "spawned")
             => /\ NetworkStateOfB(raiden_protocol') = NODE_NETWORK_UNKNOWN
                /\ ~UnhealthyOfB(raiden_protocol')
                /\ HealthyOfB(raiden_protocol')
        /\ (~UnhealthyOfB(raiden_protocol) /\ UnhealthyOfB(raiden_protocol'))
             => /\ HealthPc(raiden_protocol) = "ping_wait"
                /\ HealthPc(raiden_protocol') = "invitation_wait"
                /\ ~raiden_protocol.tasks[HealthTaskOfB].event_quit
                /\ next_timeout(raiden_protocol.tasks[HealthTaskOfB].timeout_backoff).exhausted
                /\ PingFuture(raiden_protocol) = "pending"
                /\ MarkedUnreachable(raiden_protocol')
        /\ ( /\ HealthPc(raiden_protocol) = "ping_wait"
             /\ ~raiden_protocol.tasks[HealthTaskOfB].event_quit
             /\ HealthPc(raiden_protocol') # "ping_wait" )
             => /\ HealthPc(raiden_protocol') = "invitation_wait"
                /\ MarkedUnreachable(raiden_protocol')
        /\ UnreachableAfterKeepaliveRetries
        /\ PingRepeatedWhileUnreachable
        /\ ( /\ HealthPc(raiden_protocol) \in { "ping_wait", "invitation_wait" }
             /\ HealthPc(raiden_protocol') = "sleep"
             /\ PingFuture(raiden_protocol) = "true" )
             => MarkedReachable(raiden_protocol')
        /\ ( /\ NetworkStateOfB(raiden_protocol) # NODE_NETWORK_REACHABLE
             /\ NetworkStateOfB(raiden_protocol') = NODE_NETWORK_REACHABLE )
             => /\ HealthPc(raiden_protocol) \in { "ping_wait", "invitation_wait" }
                /\ PingFuture(raiden_protocol) = "true"
                /\ MarkedReachable(raiden_protocol')
        /\ (UnhealthyOfB(raiden_protocol) /\ ~UnhealthyOfB(raiden_protocol'))
             => MarkedReachable(raiden_protocol')
        /\ (HealthyOfB(raiden_protocol) /\ ~HealthyOfB(raiden_protocol'))
             => MarkedUnreachable(raiden_protocol')
      ]_all_vars

\* The node was unreachable and its Ping was then acknowledged: the queue
\* task that was paused is woken, and the node is reachable.
C20_Witness ==
    /\ MarkedReachable(raiden_protocol)
    /\ HealthPc(raiden_protocol) = "sleep"
    /\ QueueOfB \in DOMAIN raiden_protocol.channel_queue
    /\ raiden_protocol.tasks[QueueTaskOfB].pc = "recovery_sleep"

\* The node is unreachable and its queue task is paused.
C20_Unreachable ==
    /\ MarkedUnreachable(raiden_protocol)
    /\ HealthPc(raiden_protocol) = "invitation_wait"
    /\ QueueOfB \in DOMAIN raiden_protocol.channel_queue
    /\ raiden_protocol.tasks[QueueTaskOfB].pc = "wait_recovery"


\* -------------------------------------------------- the transport, scheduled
\*
\* The hub runs a greenlet that can run and the timers fire: while some
\* greenlet can take a step, or gevent.wait can return, one of them does.
GreenletStep ==
    \/ QueueData
    \/ QueueRetryQuit
    \/ QueueRetryTimeout
    \/ QueueRecovery
    \/ QueueRecoverySleepOver
    \/ HealthcheckStart
    \/ HealthcheckPingQuit
    \/ HealthcheckPingTimeout
    \/ HealthcheckInvitationQuit
    \/ HealthcheckInvitationTimeout
    \/ HealthcheckSleepOver
    \/ StopAndWaitReturns
FairSending == WF_all_vars(GreenletStep)

SpecSendingFair == InitSending /\ [][NextSending]_all_vars /\ FairSending

\* Where the queue task of (B, T1) is.
QueuePc(protocol) ==
    IF QueueTaskOfB \in DOMAIN protocol.tasks
    THEN protocol.tasks[QueueTaskOfB].pc
    ELSE "none"

\* Every queue task and every health task is over.
AllTasksOver ==
    \A t \in DOMAIN raiden_protocol.tasks :
        raiden_protocol.tasks[t].pc \in { "finished", "killed" }

\* C21: once the stop event is set every queue task and every health task
\* terminates, whatever it waits on (data in the queue, an Ack, a timeout of
\* the backoff, the recovery of the node), no task transmits a datagram
\* after the stop, and the wait of stop_and_wait for the tasks returns.
C21_StopTerminatesTasks ==
    /\ [][ raiden_protocol.event_stop
             => /\ raiden_protocol'.transport.sent = << >>
                /\ raiden_protocol'.event_stop
                /\ \A t \in DOMAIN raiden_protocol.tasks :
                      raiden_protocol.tasks[t].pc \in { "finished", "killed" }
                        => raiden_protocol'.tasks[t] = raiden_protocol.tasks[t]
         ]_all_vars
    /\ raiden_protocol.event_stop
          ~> (AllTasksOver /\ stop_and_wait_call.pc = "returned")

\* The stop event is set and stop_and_wait still waits while the two tasks
\* of B have ended with a message left in the queue.
C21_Witness ==
    /\ raiden_protocol.event_stop
    /\ stop_and_wait_call.pc = "gevent.wait"
    /\ QueuePc(raiden_protocol) = "finished"
    /\ HealthPc(raiden_protocol) = "finished"
    /\ raiden_protocol.channel_queue[QueueOfB] # << >>


\* The head of the queue of (B, T1), or the empty tuple.
HeadOfB(protocol) ==
    IF QueueOfB \in DOMAIN protocol.channel_queue
    THEN IF protocol.channel_queue[QueueOfB] = << >>
         THEN << >>
         ELSE Head(protocol.channel_queue[QueueOfB])
    ELSE << >>

\* The data_or_stop of the queue task of (B, T1).
DataOrStopOfB(protocol) ==
    IF QueueTaskOfB \in DOMAIN protocol.tasks
    THEN protocol.tasks[QueueTaskOfB].data_or_stop
    ELSE FALSE

\* The queue task waits for data while its queue holds an element and its
\* signal is clear: it would sleep on a message that is there.
LostWakeUp ==
    /\ QueuePc(raiden_protocol) = "wait_data"
    /\ HeadOfB(raiden_protocol) # << >>
    /\ ~DataOrStopOfB(raiden_protocol)

\* The head of the queue has not been transmitted yet, the transport is not
\* stopped and the destination is not unhealthy.
HeadWaits ==
    /\ HeadOfB(raiden_protocol) # << >>
    /\ HeadOfB(raiden_protocol) \notin history.transmitted
    /\ ~raiden_protocol.event_stop
    /\ ~UnhealthyOfB(raiden_protocol)

BackoffOfB(protocol) ==
    IF QueueTaskOfB \in DOMAIN protocol.tasks
    THEN protocol.tasks[QueueTaskOfB].timeout_backoff
    ELSE no_timeouts
DataOfB(protocol) ==
    IF QueueTaskOfB \in DOMAIN protocol.tasks
    THEN protocol.tasks[QueueTaskOfB].data
    ELSE << >>

\* The iterator single_queue_send makes for a message.
FreshBackoff(protocol) ==
    timeout_exponential_backoff(protocol.retries_before_backoff,
                                protocol.retry_interval,
                                protocol.retry_interval * 10)

\* The iterator is the one given, as it is or after one more next().
SameIteratorAfter(after, before) ==
    \/ after = before
    \/ after = next_timeout(before).iterator

\* This step keeps the task inside retry_with_recovery, for the same
\* message: its iterator goes on where it was.
IteratorGoesOn ==
    ( /\ QueuePc(raiden_protocol) \in RecoveryPcs
      /\ QueuePc(raiden_protocol') \in RecoveryPcs )
      => /\ DataOfB(raiden_protocol') = DataOfB(raiden_protocol)
         /\ SameIteratorAfter(BackoffOfB(raiden_protocol'),
                              BackoffOfB(raiden_protocol))

\* This step resumes the sending after the pause of wait_recovery: the wait
\* it enters uses the next value of the iterator.
ResumeTakesNextValue ==
    ( /\ QueuePc(raiden_protocol) = "recovery_sleep"
      /\ QueuePc(raiden_protocol') = "retry_wait" )
      => BackoffOfB(raiden_protocol')
             = next_timeout(BackoffOfB(raiden_protocol)).iterator

\* This step enters retry_with_recovery: the task has taken the head of the
\* queue, and only then the iterator is a new one.
FreshOnlyForNewHead ==
    ( /\ QueuePc(raiden_protocol) \notin RecoveryPcs
      /\ QueuePc(raiden_protocol') \in RecoveryPcs )
      => /\ QueuePc(raiden_protocol) = "wait_data"
         /\ DataOfB(raiden_protocol') = HeadOfB(raiden_protocol)
         /\ SameIteratorAfter(BackoffOfB(raiden_protocol'),
                              FreshBackoff(raiden_protocol))

\* C32: for one queued message the backoff iterator is made once and reused
\* across pauses: when the task resumes after the destination was unhealthy
\* the next wait takes the next value of the same iterator, and a new
\* iterator is made only when the next message becomes the head.
C32_BackoffReusedAcrossPauses ==
    [][ /\ IteratorGoesOn
        /\ ResumeTakesNextValue
        /\ FreshOnlyForNewHead ]_all_vars

\* The task pauses in wait_recovery with its iterator in the doubling phase,
\* for a message it has sent before the pause.
C32_Witness ==
    /\ QueuePc(raiden_protocol) = "recovery_sleep"
    /\ BackoffOfB(raiden_protocol).phase = "double"
    /\ DataOfB(raiden_protocol) \in history.transmitted
    /\ ~raiden_protocol.event_stop

\* ------------------------------------------------- the backoff generator

\* The arguments the generator is made with, and the values taken from it.
MaxRetries == 3
MaxTimeout == 3
MaxMaximum == 7
MaxYields == 7

\* timeout_exponential_backoff(retries, timeout, maximum) is made with
\* arguments of the claim's range (retries >= 0, timeout > 0, maximum > 0);
\* scenario holds the arguments, history the generator and what it has
\* yielded.
InitBackoff ==
    /\ mediator_state = NullState
    /\ channels = << >>
    /\ block_number = 0
    /\ events = << >>
    /\ raised = NoError
    /\ created = FALSE
    /\ raiden_protocol = None
    /\ stop_and_wait_call = None
    /\ \E retries \in 0..MaxRetries, timeout \in 1..MaxTimeout, maximum \in 1..MaxMaximum :
          /\ scenario = [ retries |-> retries, timeout |-> timeout,
                          maximum |-> maximum ]
          /\ history = [ iterator |-> timeout_exponential_backoff(
                                          retries, timeout, maximum),
                         yielded |-> << >> ]

\* next() of the generator, as the for loop of retry calls it.
NextOfBackoff ==
    /\ Len(history.yielded) < MaxYields
    /\ history' = [ iterator |-> next_timeout(history.iterator).iterator,
                    yielded |-> Append(history.yielded,
                                       next_timeout(history.iterator).value) ]
    /\ UNCHANGED << mediator_vars, raiden_protocol, stop_and_wait_call >>

SpecBackoff == InitBackoff /\ [][NextOfBackoff]_all_vars

RECURSIVE Doubled(_, _, _)
\* The timeout doubled a number of times, never above the maximum.
Doubled(timeout, times, maximum) ==
    IF times = 0
    THEN timeout
    ELSE Min(2 * Doubled(timeout, times - 1, maximum), maximum)

\* The k-th value of the sequence: retries values equal to the timeout, then
\* values doubling from the timeout up to the maximum, then the maximum.
SpecifiedTimeout(k) ==
    IF k <= scenario.retries
    THEN scenario.timeout
    ELSE Doubled(scenario.timeout, k - scenario.retries, scenario.maximum)

\* C33: timeout_exponential_backoff(retries, t, max) yields, for every
\* retries >= 0 and 0 < t, max, exactly retries values equal to t, then
\* values doubling from t, each min(2 * previous, max), until max is
\* reached, then max forever; no yielded value exceeds max.
C33_BackoffSequence ==
    \A k \in DOMAIN history.yielded :
        /\ history.yielded[k] = SpecifiedTimeout(k)
        /\ history.yielded[k] <= scenario.maximum

\* The same for at least one retry and a timeout that is not above the
\* maximum.
C33_BackoffSequenceFromOneRetry ==
    ( scenario.retries >= 1 /\ scenario.timeout <= scenario.maximum )
      => C33_BackoffSequence

\* ------------------------------------------------------ several queues

\* One message for each of two queues of B, (B, T1) and (B, T2).
InitQueues ==
    InitTransportWith({ << "B", M1 >>, << "B", M3 >> }, << >>, 1, 1, 1, 3, 5)

SpecQueues == InitQueues /\ [][NextSending]_all_vars

\* The queue of (B, T2) and its task; the queue of (B, T1) is the one whose
\* head stays without acknowledgement.
QueueOfBT2 == << "B", "T2" >>
QueueTaskOfBT2 == QueueTask("B", "T2")
TaskOfBT2(protocol) ==
    IF QueueTaskOfBT2 \in DOMAIN protocol.tasks
    THEN protocol.tasks[QueueTaskOfBT2]
    ELSE Greenlet("single_queue_send", "B", "T2", "none", FALSE)

\* The head of (B, T1) has been put into its queue and no Ack for it has
\* been received.
HeadOfT1Unacknowledged ==
    /\ HeadOfB(raiden_protocol) = encode(M1)
    /\ EchoOf(M1, "B") \notin history.acked

\* The future of the message of (B, T2) is resolved.
ReadyOfT2(protocol) ==
    IF EchoOf(M3, "B") \in DOMAIN protocol.senthashes_to_states
    THEN ready(protocol, EchoOf(M3, "B"))
    ELSE FALSE

\* The task of (B, T2), woken with its message, transmits it unless the
\* transport is stopped, B is unhealthy or an Ack has come already.
OtherQueueTransmits ==
    ( /\ TaskOfBT2(raiden_protocol).pc = "wait_data"
      /\ TaskOfBT2(raiden_protocol).data_or_stop
      /\ ~raiden_protocol.event_stop
      /\ ~UnhealthyOfB(raiden_protocol)
      /\ ~ReadyOfT2(raiden_protocol) )
      => \E i \in DOMAIN single_queue_send(Cleared, QueueTaskOfBT2).transport.sent :
            single_queue_send(Cleared, QueueTaskOfBT2).transport.sent[i]
                = << get_host_port(raiden_protocol, "B"), encode(M3) >>

\* The task of (B, T2), its message acknowledged, is woken and removes the
\* message from its queue.
OtherQueuePops ==
    ( /\ TaskOfBT2(raiden_protocol).pc = "retry_wait"
      /\ ReadyOfT2(raiden_protocol) )
      => /\ TaskOfBT2(raiden_protocol).event_quit
         /\ queue_retry_quit(Cleared, QueueTaskOfBT2).channel_queue[QueueOfBT2]
                = Tail(raiden_protocol.channel_queue[QueueOfBT2])

\* A step in which B becomes unhealthy or unreachable is a step of the
\* healthcheck of B, never one of a queue task.
OnlyHealthcheckMarksUnhealthy ==
    ( \/ UnhealthyOfB(raiden_protocol') /\ ~UnhealthyOfB(raiden_protocol)
      \/ /\ raiden_protocol'.nodeaddresses_networkstatuses["B"] = NODE_NETWORK_UNREACHABLE
         /\ raiden_protocol.nodeaddresses_networkstatuses["B"] # NODE_NETWORK_UNREACHABLE )
      => /\ HealthPc(raiden_protocol) \in { "ping_wait", "invitation_wait" }
         /\ \A t \in DOMAIN raiden_protocol.tasks :
               raiden_protocol.tasks[t].kind = "single_queue_send"
                 => /\ raiden_protocol'.tasks[t].pc = raiden_protocol.tasks[t].pc
                    /\ raiden_protocol'.tasks[t].timeout_backoff
                           = raiden_protocol.tasks[t].timeout_backoff

\* C34: the queues are independent.  While the head of the queue of (B, T1)
\* stays without acknowledgement, the queue of (B, T2) transmits its message
\* and removes it when it is acknowledged, and the lack of the
\* acknowledgement does not by itself mark B unhealthy: only the healthcheck
\* of B does.
C34_QueuesAreIndependent ==
    /\ [] ( HeadOfT1Unacknowledged => (OtherQueueTransmits /\ OtherQueuePops) )
    /\ [][ OnlyHealthcheckMarksUnhealthy ]_all_vars

\* The message of (B, T1) was transmitted again and again without
\* acknowledgement while the message of (B, T2) was transmitted, acknowledged
\* and removed, and B is not unhealthy.
C34_Witness ==
    /\ HeadOfT1Unacknowledged
    /\ encode(M1) \in history.transmitted
    /\ QueuePc(raiden_protocol) = "retry_wait"
    /\ BackoffOfB(raiden_protocol).phase = "double"
    /\ EchoOf(M3, "B") \in history.acked
    /\ QueueOfBT2 \in DOMAIN raiden_protocol.channel_queue
    /\ raiden_protocol.channel_queue[QueueOfBT2] = << >>
    /\ ~UnhealthyOfB(raiden_protocol)

\* ------------------------------------------------ the outbound futures

\* C35: an outbound future that an acknowledgement has resolved to true keeps
\* the value true through every later event, a second Ack and stop_and_wait
\* included; only the futures that are still pending get the value false at
\* shutdown.
C35_TrueFutureStaysTrue ==
    [][ \A i \in DOMAIN raiden_protocol.async_results :
          /\ raiden_protocol.async_results[i] = "true"
               => raiden_protocol'.async_results[i] = "true"
          /\ raiden_protocol'.async_results[i] = "false"
               => raiden_protocol.async_results[i] \in { "pending", "false" }
      ]_all_vars

\* The same for every step but the end of stop_and_wait.
C35_TrueFutureStaysTrueUntilShutdown ==
    [][ stop_and_wait_call'.pc = stop_and_wait_call.pc
          => \A i \in DOMAIN raiden_protocol.async_results :
                raiden_protocol.async_results[i] = "true"
                  => raiden_protocol'.async_results[i] = "true"
      ]_all_vars

\* ------------------------------------------- the mediator, further properties

\* The reveal of the secret by an address.
RevealOf(sender) ==
    [ type |-> "ReceiveSecretReveal", secret |-> UNIT_SECRET,
      secrethash |-> sha3(UNIT_SECRET), sender |-> sender ]

\* A refund chain: two pairs, the second made by the refund of the payee of
\* the first, the secret unknown and both payers pending.
RefundChain ==
    /\ raised = NoError
    /\ ~mediator_state.is_null
    /\ Len(pairs) = 2
    /\ mediator_state.secret = None
    /\ pairs[2].payer_transfer.sender = pairs[1].payee_address
    /\ \A i \in 1..2 : pairs[i].payer_state = "payer_pending"

\* The latest payee reveals the secret, and then the earlier payee does.
AfterLatestPayee ==
    state_transition(mediator_state, RevealOf(pairs[2].payee_address),
                     channels, block_number)
AfterEarlierPayee(latest) ==
    state_transition(latest.new_state, RevealOf(pairs[1].payee_address),
                     latest.channels, block_number)
Returned2(iteration) ==
    iteration.raised = NoError /\ ~iteration.new_state.is_null
EveryPayerRevealed(iteration) ==
    \A i \in 1..2 :
        iteration.new_state.transfers_pair[i].payer_state # "payer_pending"

\* C22: in a refund chain of two pairs, after the latest payee has revealed
\* the secret and then the earlier payee has, a SendRevealSecret was emitted
\* to the payer of every pair: no payer_state is payer_pending any more.
C22_RevealReachesFirstPayer ==
    ( /\ RefundChain
      /\ Returned2(AfterLatestPayee)
      /\ Returned2(AfterEarlierPayee(AfterLatestPayee)) )
      => EveryPayerRevealed(AfterEarlierPayee(AfterLatestPayee))

\* This step is a transition of the mediator that has returned.
TransitionReturned ==
    /\ raised' = NoError
    /\ \A c \in ChannelIds : channels'[c].status = channels[c].status

\* The pairs of the state before and after this step.
PairsBefore == DOMAIN pairs
PairsAfter == DOMAIN mediator_state'.transfers_pair
PairAfter(i) == mediator_state'.transfers_pair[i]

\* The SendRevealSecret events of this step for a recipient.
RevealsTo(recipient) ==
    Cardinality({ k \in DOMAIN events' :
                    /\ events'[k].type = "SendRevealSecret"
                    /\ events'[k].recipient = recipient })

\* The pairs whose payer goes from payer_pending to payer_secret_revealed in
\* this step.
RevealedPayers ==
    { i \in PairsBefore \cap PairsAfter :
        /\ pairs[i].payer_state = "payer_pending"
        /\ PairAfter(i).payer_state = "payer_secret_revealed" }

\* C23: a SendRevealSecret is emitted to the payer of a pair only in a
\* transition in which the pair's payee_state is in STATE_SECRET_KNOWN and
\* its payer_state was payer_pending; the transition sets payer_state to
\* payer_secret_revealed, and over any sequence of events it is emitted at
\* most once for a pair.
C23_BackwardRevealOrder ==
    [][ TransitionReturned
          => /\ \A a \in Addresses :
                  RevealsTo(a) = Cardinality({ i \in RevealedPayers :
                                     pairs[i].payer_transfer.sender = a })
             /\ \A i \in RevealedPayers :
                  PairAfter(i).payee_state \in STATE_SECRET_KNOWN
             /\ \A i \in PairsBefore \cap PairsAfter :
                  /\ pairs[i].payer_state # "payer_pending"
                       => PairAfter(i).payer_state # "payer_pending"
                  /\ PairAfter(i).payer_state = "payer_secret_revealed"
                       => pairs[i].payer_state
                              \in { "payer_pending", "payer_secret_revealed" }
             /\ \A i \in PairsAfter \ PairsBefore :
                  PairAfter(i).payer_state = "payer_pending"
      ]_vars

\* The secret was revealed to the payer of the latest pair of a refund
\* chain, and the first payer is still pending.
C23_Witness ==
    /\ raised = NoError
    /\ ~mediator_state.is_null
    /\ Len(pairs) = 2
    /\ pairs[2].payer_state = "payer_secret_revealed"
    /\ pairs[2].payee_state \in STATE_SECRET_KNOWN
    /\ pairs[1].payer_state = "payer_pending"
    /\ \E k \in DOMAIN events :
          /\ events[k].type = "SendRevealSecret"
          /\ events[k].recipient = pairs[2].payer_transfer.sender


\* The secret reveals a partner or the chain may deliver.
SecretReveals ==
    { [ type |-> type, secret |-> secret, secrethash |-> sha3(secret),
        sender |-> sender ] :
        type \in { "ReceiveSecretReveal", "ContractReceiveSecretReveal" },
        secret \in { UNIT_SECRET, OtherSecret },
        sender \in Addresses }

\* The transition returns the state and the channels as they are, and no
\* events.
LeavesAllUnchanged(iteration) ==
    /\ iteration.raised = NoError
    /\ iteration.new_state = mediator_state
    /\ iteration.channels = channels
    /\ iteration.events = << >>

\* C24: a ReceiveSecretReveal or ContractReceiveSecretReveal whose
\* secrethash differs from the state's secrethash, or that arrives when the
\* state's secret is already set, leaves the mediator state unchanged and
\* emits no events.
C24_InvalidOrRepeatedRevealIsDropped ==
    ( raised = NoError /\ ~mediator_state.is_null )
      => \A reveal \in SecretReveals :
            ( \/ reveal.secrethash # mediator_state.secrethash
              \/ mediator_state.secret # None )
              => LeavesAllUnchanged(
                     state_transition(mediator_state, reveal, channels,
                                      block_number))

\* The secret is known, the payer of a pair still waits for it, and the
\* last transition has emitted nothing.
C24_Witness ==
    /\ raised = NoError
    /\ ~mediator_state.is_null
    /\ mediator_state.secret # None
    /\ Len(pairs) = 2
    /\ pairs[1].payer_state = "payer_pending"
    /\ events = << >>


\* The refunds a partner may send.
TransferRefunds ==
    { [ type |-> "ReceiveTransferRefund",
        transfer |-> LockedTransfer(
            TRUE, channel_identifier, partner_of(channel_identifier),
            UNIT_AMOUNT, expiration, UNIT_HASHLOCK, PAYMENT_IDENTIFIER),
        routes |-> routes, message_valid |-> message_valid ] :
        channel_identifier \in ChannelIds \cup { UnknownChannel },
        expiration \in { scenario.expiration, scenario.expiration - 1 },
        routes \in RouteLists,
        message_valid \in BOOLEAN }

\* C25: a ReceiveTransferRefund processed while the state's secret is set
\* leaves the state unchanged and emits no events.
C25_RefundAfterSecretIsDropped ==
    ( raised = NoError /\ ~mediator_state.is_null /\ mediator_state.secret # None )
      => \A refund \in TransferRefunds :
            LeavesAllUnchanged(
                state_transition(mediator_state, refund, channels, block_number))

\* The secret is known while the payee of the latest pair, who could still
\* send a valid refund, has not been paid, and the last transition has
\* emitted nothing.
C25_Witness ==
    /\ raised = NoError
    /\ ~mediator_state.is_null
    /\ mediator_state.secret # None
    /\ pairs # << >>
    /\ pairs[Len(pairs)].payee_state = "payee_pending"
    /\ channels[pairs[Len(pairs)].payee_transfer.channel_identifier].status = CHANNEL_STATE_OPENED
    /\ events = << >>


\* The ActionInitMediator state changes the host may dispatch.
InitChanges ==
    { [ type |-> "ActionInitMediator", from_route |-> "cA",
        from_transfer |-> LockedTransfer(
            TRUE, "cA", "A", UNIT_AMOUNT, scenario.expiration, UNIT_HASHLOCK,
            PAYMENT_IDENTIFIER),
        routes |-> routes, message_valid |-> message_valid ] :
        routes \in RouteLists, message_valid \in BOOLEAN }

\* The payer transfer a state change hands to mediate_transfer.
PayerTransferOf(change) ==
    IF change.type = "ActionInitMediator"
    THEN change.from_transfer ELSE change.transfer

\* The state changes of the current state for which the handler reaches
\* mediate_transfer: an init with a valid transfer over a channel of the
\* node, or a valid refund while the secret is unknown.
MediatedChanges ==
    IF mediator_state.is_null
    THEN IF created
         THEN { }
         ELSE { change \in InitChanges :
                  channel_is_valid_lockedtransfer(
                      channels[change.from_route], change.from_transfer,
                      change.message_valid) }
    ELSE IF mediator_state.secret # None \/ pairs = << >>
    THEN { }
    ELSE { change \in TransferRefunds :
             /\ change.transfer.channel_identifier \in DOMAIN channels
             /\ channel_is_valid_refund(
                    pairs[Len(pairs)].payee_transfer,
                    channels[change.transfer.channel_identifier],
                    change.transfer, change.message_valid) }

\* The positions of the routes mediate_transfer may select: the channel is
\* neither payer nor payee channel of a pair, and it is usable for the
\* payer's amount and lock timeout.
SelectableRoutes(change) ==
    { k \in DOMAIN change.routes :
        /\ \A i \in DOMAIN pairs :
              /\ pairs[i].payer_transfer.channel_identifier # change.routes[k]
              /\ pairs[i].payee_transfer.channel_identifier # change.routes[k]
        /\ change.routes[k] \in DOMAIN channels
        /\ is_channel_usable(channels[change.routes[k]],
                             PayerTransferOf(change).amount,
                             PayerTransferOf(change).expiration - block_number) }

FirstSelectable(change) ==
    change.routes[CHOOSE k \in SelectableRoutes(change) :
                      \A l \in SelectableRoutes(change) : k <= l]

MediatedTransfersOf(event_list) ==
    { k \in DOMAIN event_list : event_list[k].type = "SendMediatedTransfer" }

\* The transition has sent one transfer over the route and appended one
\* pending pair for it.
MediatedOver(iteration, change, route) ==
    /\ Cardinality(MediatedTransfersOf(iteration.events)) = 1
    /\ \A k \in MediatedTransfersOf(iteration.events) :
          iteration.events[k].channel = route
    /\ ~iteration.new_state.is_null
    /\ Len(iteration.new_state.transfers_pair) = Len(pairs) + 1
    /\ SubSeq(iteration.new_state.transfers_pair, 1, Len(pairs)) = pairs
    /\ LET pair == iteration.new_state.transfers_pair[Len(pairs) + 1]
       IN  /\ pair.payee_state = "payee_pending"
           /\ pair.payer_state = "payer_pending"
           /\ pair.payer_transfer = PayerTransferOf(change)
           /\ pair.payee_transfer.channel_identifier = route
           /\ pair.payee_transfer.amount = PayerTransferOf(change).amount
           /\ pair.payee_transfer.expiration = PayerTransferOf(change).expiration
           /\ pair.payee_transfer.secrethash = PayerTransferOf(change).secrethash

\* The transition has sent no transfer and appended no pair.
NotMediated(iteration) ==
    /\ MediatedTransfersOf(iteration.events) = { }
    /\ iteration.new_state.is_null
         \/ iteration.new_state.transfers_pair = pairs

\* C26: mediate_transfer selects the first route, in the given order, whose
\* channel is neither payer nor payee channel of an existing pair and is
\* usable for the payer's amount and lock timeout; when there is one it
\* emits exactly one SendMediatedTransfer on it and appends exactly one
\* pair, payee_pending and payer_pending, with the amount, expiration and
\* secrethash of the payer transfer.
C26_MediateSelectsFirstUsableUnusedRoute ==
    raised = NoError
      => \A change \in MediatedChanges :
            LET iteration == state_transition(mediator_state, change, channels,
                                              block_number)
            IN  iteration.raised = NoError
                  => IF SelectableRoutes(change) # { }
                     THEN MediatedOver(iteration, change, FirstSelectable(change))
                     ELSE NotMediated(iteration)

\* After a refund the second route was selected: the first one is the payee
\* channel of the first pair.
C26_Witness ==
    /\ raised = NoError
    /\ ~mediator_state.is_null
    /\ Len(pairs) = 2
    /\ pairs[1].payee_transfer.channel_identifier = "cB"
    /\ pairs[2].payee_transfer.channel_identifier = "cC"
    /\ pairs[2].payer_state = "payer_pending"
    /\ pairs[2].payee_state = "payee_pending"
    /\ MediatedTransfersOf(events) # { }


\* C27: is_safe_to_wait(lock_expiration, reveal_timeout, block) is true iff
\* lock_expiration - block > reveal_timeout, and false for every smaller
\* lock timeout; here for the arguments the mediator passes for each of its
\* pairs at the current block (the payer lock's expiration and the payer
\* channel's reveal timeout).
C27_SafeToWaitIffTimeoutAboveReveal ==
    ( raised = NoError /\ ~mediator_state.is_null )
      => \A i \in DOMAIN pairs :
            has_payer_channel(channels, pairs[i])
              => is_safe_to_wait_result(
                     pairs[i].payer_transfer.expiration,
                     get_payer_channel(channels, pairs[i]).reveal_timeout,
                     block_number)
                 = IF pairs[i].payer_transfer.expiration - block_number
                        > get_payer_channel(channels, pairs[i]).reveal_timeout
                   THEN "True" ELSE "False"


Unlocks ==
    { [ type |-> "ReceiveUnlock", sender |-> partner_of(channel_identifier),
        channel_identifier |-> channel_identifier,
        message_valid |-> message_valid ] :
        channel_identifier \in ChannelIds \cup { UnknownChannel },
        message_valid \in BOOLEAN }

\* The pairs whose payer sent the unlock.
PairsOfSender(unlock) ==
    { i \in DOMAIN pairs : pairs[i].payer_transfer.sender = unlock.sender }

\* The channel's unlock handler accepts the unlock.
UnlockAccepted(unlock) ==
    /\ unlock.channel_identifier \in DOMAIN channels
    /\ channel_is_valid_unlock(channels[unlock.channel_identifier],
                               unlock.sender, unlock.message_valid)

HasEvent(event_list, type, recipient) ==
    \E k \in DOMAIN event_list :
        /\ event_list[k].type = type
        /\ event_list[k].recipient = recipient

\* The transition has claimed the unlock for the pairs of its sender.
UnlockClaimed(iteration, unlock) ==
    /\ iteration.raised = NoError
    /\ HasEvent(iteration.events, "EventUnlockClaimSuccess", None)
    /\ HasEvent(iteration.events, "SendProcessed", unlock.sender)
    /\ \/ iteration.new_state.is_null
       \/ \A i \in DOMAIN pairs :
             iteration.new_state.transfers_pair[i] =
                 IF i \in PairsOfSender(unlock)
                 THEN [ pairs[i] EXCEPT !.payer_state = "payer_balance_proof" ]
                 ELSE pairs[i]

\* The transition has changed no pair and emitted neither event.
UnlockIgnored(iteration, unlock) ==
    /\ iteration.raised = NoError
    /\ ~HasEvent(iteration.events, "EventUnlockClaimSuccess", None)
    /\ ~HasEvent(iteration.events, "SendProcessed", unlock.sender)
    /\ iteration.new_state = mediator_state

UnlockHandledAsSpecified(unlock) ==
    LET iteration == state_transition(mediator_state, unlock, channels,
                                      block_number)
    IN  IF PairsOfSender(unlock) # { } /\ UnlockAccepted(unlock)
        THEN UnlockClaimed(iteration, unlock)
        ELSE UnlockIgnored(iteration, unlock)

\* C29: a ReceiveUnlock that the channel's unlock handler accepts, for the
\* pair whose payer transfer was sent by the unlock's sender, emits
\* EventUnlockClaimSuccess and SendProcessed to that sender and sets the
\* pair's payer_state to payer_balance_proof; an unlock the handler rejects,
\* or one whose sender is the payer of no pair, changes no pair and emits
\* neither event.
C29_UnlockClaimsForThePayer ==
    ( raised = NoError /\ ~mediator_state.is_null )
      => \A unlock \in Unlocks : UnlockHandledAsSpecified(unlock)

\* The same, once the secret is known to the mediator.
C29_UnlockAfterSecret ==
    ( raised = NoError /\ ~mediator_state.is_null /\ mediator_state.secret # None )
      => \A unlock \in Unlocks : UnlockHandledAsSpecified(unlock)


\* ------------------------------------ the transport, further properties

\* The destination's unhealthy event is set.
UnhealthyOf(protocol, receiver_address) ==
    IF receiver_address \in DOMAIN protocol.addresses_events
    THEN is_unhealthy(protocol, receiver_address)
    ELSE FALSE

\* This step transmits the bytes of a message the host has put into a queue.
TransmitsQueued(s) ==
    \E i \in DOMAIN raiden_protocol'.transport.sent :
        raiden_protocol'.transport.sent[i][2] = encode(s[2])

\* C30: a queue task never transmits a queued message to a destination
\* while the destination's unhealthy event is set, for every interleaving
\* of the health supervisor and the queue task, the one included in which
\* unhealthy is set again while the task sleeps in wait_recovery.
C30_NoQueuedDataWhileUnhealthy ==
    [][ \A s \in history.sendable :
          TransmitsQueued(s) => ~UnhealthyOf(raiden_protocol, s[1])
      ]_all_vars


\* ------------------------------------------------ the mediator, paid payees

\* The payee states of STATE_TRANSFER_PAID.
PayeePaidStates == { "payee_contract_unlock", "payee_balance_proof" }

\* The pairs of the state before this step whose payee has been paid.
PaidPayees == { i \in DOMAIN pairs : pairs[i].payee_state \in PayeePaidStates }

\* The pairs whose payee this step sets to payee_expired.
PayeesExpiredByStep ==
    { i \in PairsBefore \cap PairsAfter :
        /\ pairs[i].payee_state # "payee_expired"
        /\ PairAfter(i).payee_state = "payee_expired" }

\* C36: once a pair's payee_state is payee_balance_proof or
\* payee_contract_unlock no later transition changes it; a Block after the
\* payee lock's expiration does not set it to payee_expired and emits no
\* EventUnlockFailed for a payee that was already paid.
C36_PaidPayeeStaysPaid ==
    [][ /\ \A i \in PaidPayees :
              i \in PairsAfter
                => PairAfter(i).payee_state = pairs[i].payee_state
        /\ BlockReturned
              => CountEvents(events', "EventUnlockFailed")
                    = Cardinality(PayeesExpiredByStep \ PaidPayees)
      ]_vars

\* C36, for every transition that is not a Block: the payee state of a paid
\* payee is left as it is.
C36_PaidPayeeStaysPaidButForBlocks ==
    [][ block_number' = block_number
          => \A i \in PaidPayees :
                i \in PairsAfter
                  => PairAfter(i).payee_state = pairs[i].payee_state
      ]_vars


\* ------------------------------------------- the mediator, channels in use

\* The payee and the payer channel of pair i of the current state.
PayeeChannel(i) == pairs[i].payee_transfer.channel_identifier
PayerChannel(i) == pairs[i].payer_transfer.channel_identifier

BlockAfterEveryPayerLock ==
    /\ BlockReturned
    /\ \A i \in DOMAIN pairs :
          block_number' > pairs[i].payer_transfer.expiration

\* C38: ContractSendSecretReveal is never emitted for a pair in a Block
\* transition whose block number is greater than that pair's payer
\* lock.expiration.
C38_NoRevealAfterPayerExpiration ==
    [][ BlockAfterEveryPayerLock
          => CountEvents(events', "ContractSendSecretReveal") = 0
      ]_vars

\* C38, for the pairs whose payer lock had expired at an earlier Block: once
\* payer_state is payer_expired and the payee is final the pair is no longer
\* pending and no ContractSendSecretReveal is emitted for it.
C38_NoRevealForExpiredPairs ==
    [][ ( /\ BlockReturned
          /\ \A i \in DOMAIN pairs :
                /\ pairs[i].payer_state = "payer_expired"
                /\ pairs[i].payee_state \in STATE_TRANSFER_FINAL )
          => CountEvents(events', "ContractSendSecretReveal") = 0
      ]_vars


\* ------------------------------------------------- the transport, Ack cache

\* C39: receivedhashes_to_acks has an entry for an echohash if and only if
\* on_message returned without exception for the message with that echohash;
\* a handled message has its Ack cached even when discovery has no endpoint
\* of the sender, so on_message is never invoked twice for a handled message.
C39_AckCachedIffHandled ==
    /\ DOMAIN raiden_protocol.receivedhashes_to_acks = history.handled
    /\ (raiden_protocol.transport.accepting /\ InboundEcho \in history.handled)
          => \A outcome \in OnMessageOutcomes :
                on_message_count(
                    receive(Cleared, encode(Inbound), outcome).protocol,
                    InboundEcho)
                  = on_message_count(raiden_protocol, InboundEcho)

\* C39, from the cache to the handler: every cached Ack is the Ack of a
\* message on_message has returned for.
C39_CachedOnlyIfHandled ==
    DOMAIN raiden_protocol.receivedhashes_to_acks \subseteq history.handled


\* ------------------------------------------- the transport, health events

\* C40: for every destination the healthy and the unhealthy event are never
\* both set (each change clears one before it sets the other), and whenever
\* unhealthy is set the recorded network state of the destination is
\* UNREACHABLE.
C40_HealthEventsExclusive ==
    \A receiver_address \in DOMAIN raiden_protocol.addresses_events :
        /\ ~( /\ is_healthy(raiden_protocol, receiver_address)
              /\ is_unhealthy(raiden_protocol, receiver_address) )
        /\ is_unhealthy(raiden_protocol, receiver_address)
              => /\ receiver_address
                        \in DOMAIN raiden_protocol.nodeaddresses_networkstatuses
                 /\ raiden_protocol.nodeaddresses_networkstatuses[receiver_address]
                        = NODE_NETWORK_UNREACHABLE

\* The healthcheck of B has marked B unreachable in a later turn of its
\* loop: the second Ping was not acknowledged, unhealthy is set and the
\* invitation Pings are going out.
C40_Witness ==
    /\ ~raiden_protocol.event_stop
    /\ HealthPc(raiden_protocol) = "invitation_wait"
    /\ UnhealthyOfB(raiden_protocol)
    /\ ~HealthyOfB(raiden_protocol)
    /\ NetworkStateOfB(raiden_protocol) = NODE_NETWORK_UNREACHABLE
    /\ raiden_protocol.nodeaddresses_to_nonces["B"] >= 2


====
